---- MODULE Spec2Model ----
(***************************************************************************)
(* The agent templates of the LangGraph.js skill pack as state machines:   *)
(* the multi-agent (supervisor) template, the RAG template and the basic   *)
(* ReAct template.  A thread's checkpointed graph state is `state`, the    *)
(* node scheduled to run next is `next` (the snapshot's `next`), and one   *)
(* action models one node execution: the node function, the reducers that  *)
(* merge its update into the state, and the edge that selects what runs    *)
(* afterwards.  Model and tool responses are inputs chosen with \E.        *)
(***************************************************************************)
EXTENDS Integers, Sequences, FiniteSets, TLC

VARIABLES
  state,        \* the thread's graph state (snapshot.values)
  next,         \* the node to execute next, START before the first run, END after a run
  executed,     \* per node: how many times it has executed in the current run
  start,        \* the graph state the current run started from (input applied)
  invocations   \* how many times the graph has been invoked on the thread

vars == <<state, next, executed, start, invocations>>

----------------------------------------------------------------------------
(* Bounds of the model *)

MaxInvocations == 2   \* invocations of a graph on the thread
MaxToolRounds == 2    \* tool requests of the model on the thread

----------------------------------------------------------------------------
(* JavaScript built-ins used by the templates *)

START == "__start__"
END == "__end__"

UpperCase == <<"A","B","C","D","E","F","G","H","I","J","K","L","M",
               "N","O","P","Q","R","S","T","U","V","W","X","Y","Z">>
LowerCase == <<"a","b","c","d","e","f","g","h","i","j","k","l","m",
               "n","o","p","q","r","s","t","u","v","w","x","y","z">>
WhiteSpace == {" ", "\n", "\t"}

charAt(s, i) == SubSeq(s, i, i)

lowerChar(c) ==
  IF \E i \in 1..Len(UpperCase) : UpperCase[i] = c
  THEN LowerCase[CHOOSE i \in 1..Len(UpperCase) : UpperCase[i] = c]
  ELSE c

\* In the helpers below an argument is bound once (v \in {arg}) so that it
\* is evaluated a single time however often the body reads it.

RECURSIVE lowerFrom(_, _)
lowerFrom(s, i) ==
  IF i > Len(s) THEN "" ELSE lowerChar(charAt(s, i)) \o lowerFrom(s, i + 1)

\* String.prototype.toLowerCase
toLowerCase(str) == CHOOSE r \in {lowerFrom(s, 1) : s \in {str}} : TRUE

trimOf(s) ==
  LET keep == {i \in 1..Len(s) : charAt(s, i) \notin WhiteSpace}
  IN IF keep = {} THEN ""
     ELSE SubSeq(s, CHOOSE i \in keep : \A j \in keep : i <= j,
                    CHOOSE i \in keep : \A j \in keep : i >= j)

\* String.prototype.trim: drop the white space at both ends
trim(str) == CHOOSE r \in {trimOf(s) : s \in {str}} : TRUE

\* String.prototype.includes
includes(str, sub) ==
  \E s \in {str} :
    \E i \in 1..(Len(s) - Len(sub) + 1) : SubSeq(s, i, i + Len(sub) - 1) = sub

\* str begins with the text of a template literal's fixed part
startsWith(str, prefix) ==
  Len(str) >= Len(prefix) /\ SubSeq(str, 1, Len(prefix)) = prefix

\* x || y on strings: the empty string (and undefined) is falsy
OrElse(x, y) == IF x = "" THEN y ELSE x

\* messages.at(-1)?.content?.toString(), "" standing for undefined
lastContent(messages) ==
  IF Len(messages) = 0 THEN "" ELSE messages[Len(messages)].content

Has(u, field) == field \in DOMAIN u

----------------------------------------------------------------------------
(* Messages *)

HumanMessage(c) == [type |-> "human", content |-> c]
AIMessage(c) == [type |-> "ai", content |-> c, tool_calls |-> <<>>]

----------------------------------------------------------------------------
(* Multi-agent template: state, nodes, routing *)

IterationLimit == 10

MultiNodes == {"supervisor", "researcher", "writer", "finalize"}

MultiAgentStateDefault ==
  [messages |-> <<>>, task |-> "", currentAgent |-> "supervisor",
   researchNotes |-> <<>>, draft |-> "", iterations |-> 0]

\* Annotation.Root: merge a node's partial update into the state, field by field
MultiAgentStateMerge(s, u) ==
  [messages      |-> IF Has(u, "messages") THEN s.messages \o u.messages ELSE s.messages,
   task          |-> IF Has(u, "task") THEN u.task ELSE s.task,
   currentAgent  |-> IF Has(u, "currentAgent") THEN u.currentAgent ELSE s.currentAgent,
   researchNotes |-> IF Has(u, "researchNotes")
                     THEN s.researchNotes \o u.researchNotes ELSE s.researchNotes,
   draft         |-> IF Has(u, "draft") THEN u.draft ELSE s.draft,
   iterations    |-> IF Has(u, "iterations") THEN s.iterations + u.iterations ELSE s.iterations]

MultiAgentState(s, u) ==
  CHOOSE r \in {MultiAgentStateMerge(a, b) : a \in {s}, b \in {u}} : TRUE

\* what the supervisor model may answer
SupervisorAnswers ==
  {"researcher", "Writer", " FINISH\n"}

\* what the worker model may answer to the researcher's prompt, which holds
\* the notes so far: something it has not just said
ResearcherAnswers(s) ==
  IF Len(s.researchNotes) % 2 = 0 THEN {"text"} ELSE {"more text"}

\* what the worker model may answer to the writer's prompt, which holds the
\* existing draft: a draft other than that one
WriterAnswers(s) ==
  IF s.draft = "draft" THEN {"improved draft"} ELSE {"draft"}

\* what the user may send
UserRequests == {"blog post"}

\* faulty variant: the supervisor also records its decision as a message
supervisor_AddsMessage(s, response) ==
  LET task == OrElse(lastContent(s.messages), s.task)
      decision == trim(toLowerCase(response))
  IN [task |-> task, currentAgent |-> decision, iterations |-> 1,
      messages |-> <<AIMessage(decision)>>]

supervisor(s, response) ==
  LET task == OrElse(lastContent(s.messages), s.task)
      decision == trim(toLowerCase(response))
  IN [task |-> task, currentAgent |-> decision, iterations |-> 1]

\* faulty variant: the researcher returns no note
researcher_NoNote(s, response) ==
  [researchNotes |-> <<>>,
   messages |-> <<AIMessage("[Researcher] " \o response)>>]

researcher(s, response) ==
  [researchNotes |-> <<response>>,
   messages |-> <<AIMessage("[Researcher] " \o response)>>]

\* faulty variant: an existing draft is kept
writer_KeepDraft(s, response) ==
  [draft |-> OrElse(s.draft, response),
   messages |-> <<AIMessage("[Writer] " \o response)>>]

writer(s, response) ==
  [draft |-> response,
   messages |-> <<AIMessage("[Writer] " \o response)>>]

finalize(s) ==
  [messages |-> <<AIMessage("Task completed!\n\nFinal output:\n" \o s.draft)>>]

\* faulty variant: the safety limit compared one too high
routeFromSupervisor_LateLimit(s) ==
  LET decision == toLowerCase(s.currentAgent)
  IN IF s.iterations > IterationLimit + 1 THEN "finalize"
     ELSE IF includes(decision, "finish") THEN "finalize"
     ELSE IF includes(decision, "researcher") THEN "researcher"
     ELSE IF includes(decision, "writer") THEN "writer"
     ELSE "finalize"

\* faulty variant: the worker names tested before "finish"
routeFromSupervisor_WorkersFirst(s) ==
  LET decision == toLowerCase(s.currentAgent)
  IN IF s.iterations > IterationLimit THEN "finalize"
     ELSE IF includes(decision, "researcher") THEN "researcher"
     ELSE IF includes(decision, "writer") THEN "writer"
     ELSE IF includes(decision, "finish") THEN "finalize"
     ELSE "finalize"

routeFromSupervisor(s) ==
  LET decision == toLowerCase(s.currentAgent)
  IN IF s.iterations > IterationLimit THEN "finalize"
     ELSE IF includes(decision, "finish") THEN "finalize"
     ELSE IF includes(decision, "researcher") THEN "researcher"
     ELSE IF includes(decision, "writer") THEN "writer"
     ELSE "finalize"

\* faulty variant: the researcher hands over to the writer directly
MultiEdge_Chain(node, s) ==
  CASE node = START -> "supervisor"
    [] node = "supervisor" -> routeFromSupervisor(s)
    [] node = "researcher" -> "writer"
    [] node = "writer" -> "supervisor"
    [] node = "finalize" -> END

\* the graph's edges: the node that runs after `node` in state s
MultiEdge(node, s) ==
  CASE node = START -> "supervisor"
    [] node = "supervisor" -> routeFromSupervisor(s)
    [] node = "researcher" -> "supervisor"
    [] node = "writer" -> "supervisor"
    [] node = "finalize" -> END

Ran(node) == [executed EXCEPT ![node] = @ + 1]

\* multiAgent.invoke / stream on the thread: the input goes through the reducers
MultiInvoke ==
  /\ next \in {START, END}
  /\ invocations < MaxInvocations
  /\ \E request \in UserRequests :
       \E s1 \in {MultiAgentState(state, [messages |-> <<HumanMessage(request)>>])} :
          /\ state' = s1
          /\ start' = s1
          /\ next' = MultiEdge(START, s1)
  /\ executed' = [n \in MultiNodes |-> 0]
  /\ invocations' = invocations + 1

MultiSupervisor ==
  /\ next = "supervisor"
  /\ \E response \in SupervisorAnswers :
       \E s1 \in {MultiAgentState(state, supervisor(state, response))} :
          /\ state' = s1
          /\ next' = MultiEdge("supervisor", s1)
  /\ executed' = Ran("supervisor")
  /\ UNCHANGED <<start, invocations>>

MultiResearcher ==
  /\ next = "researcher"
  /\ \E response \in ResearcherAnswers(state) :
       \E s1 \in {MultiAgentState(state, researcher(state, response))} :
          /\ state' = s1
          /\ next' = MultiEdge("researcher", s1)
  /\ executed' = Ran("researcher")
  /\ UNCHANGED <<start, invocations>>

MultiWriter ==
  /\ next = "writer"
  /\ \E response \in WriterAnswers(state) :
       \E s1 \in {MultiAgentState(state, writer(state, response))} :
          /\ state' = s1
          /\ next' = MultiEdge("writer", s1)
  /\ executed' = Ran("writer")
  /\ UNCHANGED <<start, invocations>>

MultiFinalize ==
  /\ next = "finalize"
  /\ \E s1 \in {MultiAgentState(state, finalize(state))} :
       /\ state' = s1
       /\ next' = MultiEdge("finalize", s1)
  /\ executed' = Ran("finalize")
  /\ UNCHANGED <<start, invocations>>

MultiStep == MultiSupervisor \/ MultiResearcher \/ MultiWriter \/ MultiFinalize

MultiInit ==
  /\ state = MultiAgentStateDefault
  /\ start = MultiAgentStateDefault
  /\ next = START
  /\ executed = [n \in MultiNodes |-> 0]
  /\ invocations = 0

MultiNext == MultiInvoke \/ MultiStep

SpecMulti == MultiInit /\ [][MultiNext]_vars

----------------------------------------------------------------------------
(* RAG template: state, nodes, routing *)

RetryLimit == 2

RAGNodes == {"retrieve", "grade", "generate", "rewrite"}

RAGStateDefault ==
  [messages |-> <<>>, query |-> "", documents |-> <<>>,
   generation |-> "", retryCount |-> 0]

\* faulty variant: the documents reducer concatenates
RAGStateMerge_ConcatDocs(s, u) ==
  [messages   |-> IF Has(u, "messages") THEN s.messages \o u.messages ELSE s.messages,
   query      |-> IF Has(u, "query") THEN u.query ELSE s.query,
   documents  |-> IF Has(u, "documents") THEN s.documents \o u.documents ELSE s.documents,
   generation |-> IF Has(u, "generation") THEN u.generation ELSE s.generation,
   retryCount |-> IF Has(u, "retryCount") THEN s.retryCount + u.retryCount ELSE s.retryCount]

RAGStateMerge(s, u) ==
  [messages   |-> IF Has(u, "messages") THEN s.messages \o u.messages ELSE s.messages,
   query      |-> IF Has(u, "query") THEN u.query ELSE s.query,
   documents  |-> IF Has(u, "documents") THEN u.documents ELSE s.documents,
   generation |-> IF Has(u, "generation") THEN u.generation ELSE s.generation,
   retryCount |-> IF Has(u, "retryCount") THEN s.retryCount + u.retryCount ELSE s.retryCount]

RAGState(s, u) ==
  CHOOSE r \in {RAGStateMerge(a, b) : a \in {s}, b \in {u}} : TRUE

Document(pageContent, source) ==
  [pageContent |-> pageContent, metadata |-> [source |-> source]]

\* what a vector store put in place of the stub may return: up to two
\* documents of its corpus, in similarity order
VectorStoreResults ==
  LET a == Document("LangGraph builds agents as graphs", "a.md")
      b == Document("Bread needs flour and water", "b.md")
  IN {<<>>, <<a>>, <<b>>, <<a, b>>, <<b, a>>}

\* the results retrieval may give for a query: the stub's placeholder
\* document, or what the vector store that replaces the stub finds
retrieveDocuments(query) ==
  {<<Document("This is a placeholder document about: " \o query, "example.txt")>>}
    \cup VectorStoreResults

\* what the grader model may answer for one document
GraderAnswers == {"Yes", "no"}

\* what the model may answer when generating and when rewriting
GenerateAnswers == {"answer"}
RewriteAnswers == {"better question", ""}

UserQuestions == {"What is LangGraph?", "How is bread made?"}

\* the inputs of ragAgent.invoke: a question as message and query, or as
\* message only
RAGInputs ==
  {[messages |-> <<HumanMessage(q)>>, query |-> q] : q \in UserQuestions}
    \cup {[messages |-> <<HumanMessage(q)>>] : q \in UserQuestions}

\* the query retrieve computes and passes to retrieveDocuments
retrieveQuery(s) == OrElse(s.query, lastContent(s.messages))

retrieve(s, documents) == [documents |-> documents, query |-> retrieveQuery(s)]

RECURSIVE relevantFrom(_, _, _)
relevantFrom(docs, grades, i) ==
  IF i > Len(docs) THEN <<>>
  ELSE (IF includes(toLowerCase(grades[i]), "yes") THEN <<docs[i]>> ELSE <<>>)
         \o relevantFrom(docs, grades, i + 1)

\* grades[i] is the grader's answer for state.documents[i]
gradeDocuments(s, grades) == [documents |-> relevantFrom(s.documents, grades, 1)]

generate(s, response) ==
  [generation |-> response, messages |-> <<AIMessage(response)>>]

\* faulty variant: the rewrite is not counted
rewriteQuery_NoCount(s, response) == [query |-> response]

rewriteQuery(s, response) == [query |-> response, retryCount |-> 1]

\* faulty variant: the retry limit compared one too high
routeAfterGrade_LateLimit(s) ==
  IF Len(s.documents) > 0 THEN "generate"
  ELSE IF s.retryCount > RetryLimit THEN "generate"
  ELSE "rewrite"

\* faulty variant: relevant documents do not stop the retries
routeAfterGrade_IgnoreDocs(s) ==
  IF s.retryCount >= RetryLimit THEN "generate" ELSE "rewrite"

\* faulty variant: with no relevant document the route depends on how many
\* responses the process has handled so far, whichever run they were for
routeAfterGrade_ByCalls(s) ==
  IF Len(s.documents) > 0 THEN "generate"
  ELSE IF s.retryCount >= RetryLimit \/ Len(executed) % 2 = 0 THEN "generate"
  ELSE "rewrite"

routeAfterGrade(s) ==
  IF Len(s.documents) > 0 THEN "generate"
  ELSE IF s.retryCount >= RetryLimit THEN "generate"
  ELSE "rewrite"

\* faulty variant: the rewritten query is graded without a new retrieval
RAGEdge_SkipRetrieve(node, s) ==
  CASE node = START -> "retrieve"
    [] node = "retrieve" -> "grade"
    [] node = "grade" -> routeAfterGrade(s)
    [] node = "rewrite" -> "grade"
    [] node = "generate" -> END

RAGEdge(node, s) ==
  CASE node = START -> "retrieve"
    [] node = "retrieve" -> "grade"
    [] node = "grade" -> routeAfterGrade(s)
    [] node = "rewrite" -> "retrieve"
    [] node = "generate" -> END

\* ragAgent.invoke on the thread: the input goes through the reducers
RAGInvoke ==
  /\ next \in {START, END}
  /\ invocations < MaxInvocations
  /\ \E input \in RAGInputs :
       \E s1 \in {RAGState(state, input)} :
          /\ state' = s1
          /\ start' = s1
          /\ next' = RAGEdge(START, s1)
  /\ executed' = [n \in RAGNodes |-> 0]
  /\ invocations' = invocations + 1

RAGRetrieve ==
  /\ next = "retrieve"
  /\ \E documents \in retrieveDocuments(retrieveQuery(state)) :
       \E s1 \in {RAGState(state, retrieve(state, documents))} :
          /\ state' = s1
          /\ next' = RAGEdge("retrieve", s1)
  /\ executed' = Ran("retrieve")
  /\ UNCHANGED <<start, invocations>>

RAGGrade ==
  /\ next = "grade"
  /\ \E grades \in [1..Len(state.documents) -> GraderAnswers] :
       \E s1 \in {RAGState(state, gradeDocuments(state, grades))} :
          /\ state' = s1
          /\ next' = RAGEdge("grade", s1)
  /\ executed' = Ran("grade")
  /\ UNCHANGED <<start, invocations>>

RAGGenerate ==
  /\ next = "generate"
  /\ \E response \in GenerateAnswers :
       \E s1 \in {RAGState(state, generate(state, response))} :
          /\ state' = s1
          /\ next' = RAGEdge("generate", s1)
  /\ executed' = Ran("generate")
  /\ UNCHANGED <<start, invocations>>

RAGRewrite ==
  /\ next = "rewrite"
  /\ \E response \in RewriteAnswers :
       \E s1 \in {RAGState(state, rewriteQuery(state, response))} :
          /\ state' = s1
          /\ next' = RAGEdge("rewrite", s1)
  /\ executed' = Ran("rewrite")
  /\ UNCHANGED <<start, invocations>>

RAGStep == RAGRetrieve \/ RAGGrade \/ RAGGenerate \/ RAGRewrite

RAGInit ==
  /\ state = RAGStateDefault
  /\ start = RAGStateDefault
  /\ next = START
  /\ executed = [n \in RAGNodes |-> 0]
  /\ invocations = 0

RAGNext == RAGInvoke \/ RAGStep

SpecRAG == RAGInit /\ [][RAGNext]_vars

\* every model and retrieval call returns, so a scheduled node eventually
\* executes; nothing obliges the user to invoke the graph again
FairSpecRAG == SpecRAG /\ WF_vars(RAGStep)

----------------------------------------------------------------------------
(* One retrieval and its grading, the answers fixed beforehand: here       *)
(* `executed` holds the documents the retrieval returns and the grader's   *)
(* answer for each of them, and `start` the state before the retrieve.     *)

\* the states a retrieve step may start from: a first attempt, or a retry
\* with the documents an earlier grading left
RetrieveArgs ==
  {[messages |-> <<HumanMessage(q)>>, query |-> q2, documents |-> d,
    generation |-> "", retryCount |-> r] :
     q \in UserQuestions, q2 \in {"", "better question"},
     d \in {<<>>, <<Document("Bread needs flour and water", "b.md")>>},
     r \in 0..RetryLimit}

GradeInit ==
  /\ state \in RetrieveArgs
  /\ start = state
  /\ next = "retrieve"
  /\ \E returned \in retrieveDocuments(retrieveQuery(state)) :
       \E grades \in [1..Len(returned) -> GraderAnswers] :
          executed = [returned |-> returned, grades |-> grades]
  /\ invocations = 1

EvalRetrieve ==
  /\ next = "retrieve"
  /\ \E s1 \in {RAGState(state, retrieve(state, executed.returned))} :
       /\ state' = s1
       /\ next' = RAGEdge("retrieve", s1)
  /\ UNCHANGED <<start, executed, invocations>>

EvalGrade ==
  /\ next = "grade"
  /\ \E s1 \in {RAGState(state, gradeDocuments(state, executed.grades))} :
       /\ state' = s1
       /\ next' = RAGEdge("grade", s1)
  /\ UNCHANGED <<start, executed, invocations>>

GradeNext == EvalRetrieve \/ EvalGrade

SpecGrade == GradeInit /\ [][GradeNext]_vars

----------------------------------------------------------------------------
(* Basic ReAct template: state, tools, nodes, routing *)

BasicNodes == {"agent", "tools"}

AgentStateDefault == [messages |-> <<>>]

AgentStateMerge(s, u) ==
  [messages |-> IF Has(u, "messages") THEN s.messages \o u.messages ELSE s.messages]

AgentState(s, u) ==
  CHOOSE r \in {AgentStateMerge(a, b) : a \in {s}, b \in {u}} : TRUE

ToolCall(id, name, query) == [id |-> id, name |-> name, args |-> [query |-> query]]

AIMessageWithCalls(c, calls) == [type |-> "ai", content |-> c, tool_calls |-> calls]

ToolMessage(c, id) == [type |-> "tool", content |-> c, tool_call_id |-> id]

\* the message tool.invoke(toolCall) resolves to
ToolResult(c, call) ==
  [type |-> "tool", content |-> c, tool_call_id |-> call.id, name |-> call.name]

\* toolsByName: the names of the registered tools (the object's own keys)
toolsByName == {"example_tool"}

\* Object.fromEntries makes an ordinary object, so a lookup by a name that
\* is no own key still finds what Object.prototype holds under that name
ObjectPrototype ==
  {"constructor", "toString", "valueOf", "hasOwnProperty", "__proto__"}

\* toolsByName[name]: the tool, an inherited value that is no tool, or undefined
toolsByNameGet(name) ==
  IF name \in toolsByName THEN "tool"
  ELSE IF name \in ObjectPrototype THEN "inherited"
  ELSE "undefined"

exampleTool(args) == "Results for: " \o args.query

\* what invoking a registered tool may do: return its result, throw an
\* Error, or throw a value that is no Error
ToolOutcomes == {"returns", "throwsError", "throwsOther"}

\* what the model bound to the tools may answer
AgentAnswers ==
  {AIMessage("Here is the answer")}
\* what it may answer when it asks for tools
AgentToolRequests ==
  LET c1 == ToolCall("call_1", "example_tool", "test")
      c2 == ToolCall("call_2", "other_tool", "test")
      c3 == ToolCall("call_3", "constructor", "test")
  IN {AIMessageWithCalls("", <<c1>>), AIMessageWithCalls("", <<c2, c1>>),
      AIMessageWithCalls("", <<c3, c1>>)}

UserMessages == {"Hello! What can you do?"}

callModel(s, response) == [messages |-> <<response>>]

\* one iteration of the loop over tool_calls
\* what one iteration pushes; invoking an inherited value that is no tool
\* throws a TypeError inside the try block
toolMessageFor(call, outcome) ==
  IF toolsByNameGet(call.name) = "undefined"
  THEN ToolMessage("Unknown tool: " \o call.name, call.id)
  ELSE IF toolsByNameGet(call.name) = "inherited"
  THEN ToolMessage("Error: tool.invoke is not a function", call.id)
  ELSE IF outcome = "returns" THEN ToolResult(exampleTool(call.args), call)
  ELSE IF outcome = "throwsError" THEN ToolMessage("Error: tool failed", call.id)
  ELSE ToolMessage("Error: Unknown error", call.id)

RECURSIVE toolMessagesFrom(_, _, _)
toolMessagesFrom(calls, outcomes, i) ==
  IF i > Len(calls) THEN <<>>
  ELSE <<toolMessageFor(calls[i], outcomes[i])>> \o toolMessagesFrom(calls, outcomes, i + 1)

\* faulty variant: a last message that is no AI message is answered by an
\* error message
callTools_AnswersAny(s, outcomes) ==
  IF Len(s.messages) = 0 THEN [messages |-> <<>>]
  ELSE IF s.messages[Len(s.messages)].type # "ai"
  THEN [messages |-> <<ToolMessage("Error: no tool calls", "")>>]
  ELSE [messages |-> toolMessagesFrom(s.messages[Len(s.messages)].tool_calls, outcomes, 1)]

\* outcomes[i] is what invoking the tool of the i-th tool call does
callTools(s, outcomes) ==
  IF Len(s.messages) = 0 \/ s.messages[Len(s.messages)].type # "ai"
  THEN [messages |-> <<>>]
  ELSE [messages |-> toolMessagesFrom(s.messages[Len(s.messages)].tool_calls, outcomes, 1)]

\* the tool calls callTools iterates over
pendingCalls(s) ==
  IF Len(s.messages) = 0 \/ s.messages[Len(s.messages)].type # "ai"
  THEN <<>>
  ELSE s.messages[Len(s.messages)].tool_calls

\* faulty variant: every AI message is taken for a tool request
shouldContinue_AnyAI(s) ==
  IF Len(s.messages) = 0 \/ s.messages[Len(s.messages)].type # "ai" THEN END
  ELSE "tools"

\* faulty variant: the loop goes back to the agent instead of ending
shouldContinue_NoExit(s) ==
  IF Len(s.messages) = 0 \/ s.messages[Len(s.messages)].type # "ai" THEN END
  ELSE IF Len(s.messages[Len(s.messages)].tool_calls) > 0 THEN "tools"
  ELSE "agent"

shouldContinue(s) ==
  IF Len(s.messages) = 0 \/ s.messages[Len(s.messages)].type # "ai" THEN END
  ELSE IF Len(s.messages[Len(s.messages)].tool_calls) > 0 THEN "tools"
  ELSE END

\* faulty variant: the run ends after the tools instead of returning to the agent
BasicEdge_ToolsEnd(node, s) ==
  CASE node = START -> "agent"
    [] node = "agent" -> shouldContinue(s)
    [] node = "tools" -> END

BasicEdge(node, s) ==
  CASE node = START -> "agent"
    [] node = "agent" -> shouldContinue(s)
    [] node = "tools" -> "agent"

\* the tool requests the model has made on the thread so far
toolRounds(s) ==
  Cardinality({i \in 1..Len(s.messages) :
                 s.messages[i].type = "ai" /\ Len(s.messages[i].tool_calls) > 0})

\* agent.invoke on the thread: the input goes through the reducers
BasicInvoke ==
  /\ next \in {START, END}
  /\ invocations < MaxInvocations
  /\ \E text \in UserMessages :
       \E s1 \in {AgentState(state, [messages |-> <<HumanMessage(text)>>])} :
          /\ state' = s1
          /\ start' = s1
          /\ next' = BasicEdge(START, s1)
  /\ executed' = [n \in BasicNodes |-> 0]
  /\ invocations' = invocations + 1

\* the agent node, the model answering without tool calls
BasicAgentAnswers ==
  /\ next = "agent"
  /\ \E response \in AgentAnswers :
       \E s1 \in {AgentState(state, callModel(state, response))} :
          /\ state' = s1
          /\ next' = BasicEdge("agent", s1)
  /\ executed' = Ran("agent")
  /\ UNCHANGED <<start, invocations>>

\* the agent node, the model asking for tools (at most MaxToolRounds times
\* on the thread)
BasicAgentRequests ==
  /\ next = "agent"
  /\ toolRounds(state) < MaxToolRounds
  /\ \E response \in AgentToolRequests :
       \E s1 \in {AgentState(state, callModel(state, response))} :
          /\ state' = s1
          /\ next' = BasicEdge("agent", s1)
  /\ executed' = Ran("agent")
  /\ UNCHANGED <<start, invocations>>

BasicTools ==
  /\ next = "tools"
  /\ \E outcomes \in [1..Len(pendingCalls(state)) -> ToolOutcomes] :
       \E s1 \in {AgentState(state, callTools(state, outcomes))} :
          /\ state' = s1
          /\ next' = BasicEdge("tools", s1)
  /\ executed' = Ran("tools")
  /\ UNCHANGED <<start, invocations>>

BasicStep == BasicAgentAnswers \/ BasicAgentRequests \/ BasicTools

BasicInit ==
  /\ state = AgentStateDefault
  /\ start = AgentStateDefault
  /\ next = START
  /\ executed = [n \in BasicNodes |-> 0]
  /\ invocations = 0

BasicNext == BasicInvoke \/ BasicStep

SpecBasic == BasicInit /\ [][BasicNext]_vars

\* every model and tool call returns, so a scheduled node eventually
\* executes, and the model eventually answers without tool calls
FairSpecBasic ==
  SpecBasic /\ WF_vars(BasicStep) /\ SF_vars(BasicAgentAnswers)

----------------------------------------------------------------------------
(* The routing functions as pure functions of the state they are given *)

MaxIterations == 12
MaxArgMessages == 2

Decisions ==
  {"researcher", "writer", "finish", "FINISH", "Finish.", "Researcher", "WRITER",
   "researcher, then FINISH", "writer or researcher", "the writer should finish",
   "supervisor", "unsure", ""}

\* states routeFromSupervisor may be given
RouteFromSupervisorArgs ==
  {[MultiAgentStateDefault EXCEPT !.currentAgent = d, !.iterations = i] :
     d \in Decisions, i \in 0..MaxIterations}

SampleMessages ==
  {HumanMessage("Hello"),
   AIMessage("Done!"),
   AIMessageWithCalls("", <<ToolCall("1", "test", "x")>>),
   AIMessageWithCalls("", <<ToolCall("1", "test", "x"), ToolCall("2", "example_tool", "y")>>),
   ToolMessage("Results for: x", "1")}

\* states shouldContinue may be given
ShouldContinueArgs ==
  {[messages |-> m] : m \in UNION {[1..n -> SampleMessages] : n \in 0..MaxArgMessages}}

RouteInit ==
  /\ state \in RouteFromSupervisorArgs \cup ShouldContinueArgs
  /\ start = state
  /\ next = START
  /\ executed = <<>>
  /\ invocations = 0

EvalRouteFromSupervisor ==
  /\ next = START
  /\ Has(state, "currentAgent")
  /\ next' = routeFromSupervisor(state)
  /\ UNCHANGED <<state, start, executed, invocations>>

EvalShouldContinue ==
  /\ next = START
  /\ DOMAIN state = {"messages"}
  /\ next' = shouldContinue(state)
  /\ UNCHANGED <<state, start, executed, invocations>>

RouteNext == EvalRouteFromSupervisor \/ EvalShouldContinue

SpecRoute == RouteInit /\ [][RouteNext]_vars

----------------------------------------------------------------------------
(* callTools as a function of the state it is given: here `executed` is    *)
(* the update the node returned, <<>> before it has run.                   *)

\* states callTools may be given
CallToolsArgs ==
  {[messages |-> m] :
     m \in UNION {[1..n -> SampleMessages \cup AgentToolRequests] : n \in 0..MaxArgMessages}}

ToolsInit ==
  /\ state \in CallToolsArgs
  /\ start = state
  /\ next = "tools"
  /\ executed = <<>>
  /\ invocations = 1

EvalCallTools ==
  /\ next = "tools"
  /\ \E outcomes \in [1..Len(pendingCalls(state)) -> ToolOutcomes] :
       \E update \in {callTools(state, outcomes)} :
          /\ executed' = update
          /\ state' = AgentState(state, update)
          /\ next' = BasicEdge("tools", state')
  /\ UNCHANGED <<start, invocations>>

ToolsNext == EvalCallTools

SpecTools == ToolsInit /\ [][ToolsNext]_vars

----------------------------------------------------------------------------
(* toolNode and parallelToolNode given the same state and the same tools.  *)
(* Here `executed` holds what each tool invocation does and what the two   *)
(* nodes have returned (<<>> before a node has returned), `next` is where  *)
(* parallelToolNode stands and `invocations` lists the tool calls whose    *)
(* promise has settled, in the order in which they settled.                *)

\* one turn of toolNode's loop over the tool calls
toolNodeMessage(call, outcome) ==
  IF toolsByNameGet(call.name) = "undefined"
  THEN ToolMessage("Error: Unknown tool \"" \o call.name \o "\"", call.id)
  ELSE IF toolsByNameGet(call.name) = "inherited"
  THEN ToolMessage("Error executing " \o call.name \o ": tool.invoke is not a function",
                   call.id)
  ELSE IF outcome = "returns" THEN ToolResult(exampleTool(call.args), call)
  ELSE IF outcome = "throwsError"
  THEN ToolMessage("Error executing " \o call.name \o ": tool failed", call.id)
  ELSE ToolMessage("Error executing " \o call.name \o ": undefined", call.id)

RECURSIVE toolNodeMessages(_, _, _)
toolNodeMessages(calls, outcomes, i) ==
  IF i > Len(calls) THEN <<>>
  ELSE <<toolNodeMessage(calls[i], outcomes[i])>>
         \o toolNodeMessages(calls, outcomes, i + 1)

toolNode(s, outcomes) ==
  IF Len(s.messages) = 0 \/ s.messages[Len(s.messages)].type # "ai"
  THEN [messages |-> <<>>]
  ELSE [messages |-> toolNodeMessages(s.messages[Len(s.messages)].tool_calls, outcomes, 1)]

\* the promise of one tool call in parallelToolNode: fulfilled with a
\* message, or rejected
parallelToolCall(call, outcome) ==
  IF toolsByNameGet(call.name) = "undefined"
  THEN [rejected |-> FALSE, message |-> ToolMessage("Unknown tool: " \o call.name, call.id)]
  ELSE IF toolsByNameGet(call.name) = "tool" /\ outcome = "returns"
  THEN [rejected |-> FALSE, message |-> ToolResult(exampleTool(call.args), call)]
  ELSE [rejected |-> TRUE, message |-> ToolMessage("", call.id)]

\* Promise.all of promises that have all been fulfilled: the values in the
\* order of the promises
PromiseAll(promises, settled) ==
  [i \in 1..Len(promises) |-> promises[i].message]

ToolNodeInit ==
  /\ state \in CallToolsArgs
  /\ start = state
  /\ next = "idle"
  /\ \E outcomes \in [1..Len(pendingCalls(state)) -> ToolOutcomes] :
       executed = [outcomes |-> outcomes, sequential |-> <<>>, parallel |-> <<>>]
  /\ invocations = <<>>

\* toolNode(state)
EvalToolNode ==
  /\ executed.sequential = <<>>
  /\ executed' = [executed EXCEPT !.sequential = <<toolNode(start, executed.outcomes)>>]
  /\ UNCHANGED <<state, start, next, invocations>>

\* parallelToolNode(state) up to the await: the tool calls are started
ParallelCall ==
  /\ next = "idle"
  /\ next' = "pending"
  /\ UNCHANGED <<state, start, executed, invocations>>

\* the promise of one of the tool calls settles
ParallelSettle ==
  /\ next = "pending"
  /\ \E i \in 1..Len(pendingCalls(start)) :
       /\ \A k \in 1..Len(invocations) : invocations[k] # i
       /\ invocations' = Append(invocations, i)
  /\ UNCHANGED <<state, start, next, executed>>

\* Promise.all is fulfilled and the node returns
ParallelReturn ==
  /\ next = "pending"
  /\ Len(invocations) = Len(pendingCalls(start))
  /\ \E promises \in {[i \in 1..Len(pendingCalls(start)) |->
                         parallelToolCall(pendingCalls(start)[i], executed.outcomes[i])]} :
       /\ \A i \in 1..Len(promises) : ~promises[i].rejected
       /\ executed' = [executed EXCEPT
                         !.parallel = <<[messages |-> PromiseAll(promises, invocations)]>>]
  /\ next' = "returned"
  /\ UNCHANGED <<state, start, invocations>>

\* a promise is rejected: Promise.all is rejected and the node throws
ParallelReject ==
  /\ next = "pending"
  /\ \E k \in 1..Len(invocations) :
       parallelToolCall(pendingCalls(start)[invocations[k]],
                        executed.outcomes[invocations[k]]).rejected
  /\ next' = "rejected"
  /\ UNCHANGED <<state, start, executed, invocations>>

ToolNodeNext ==
  \/ EvalToolNode
  \/ ParallelCall
  \/ ParallelSettle
  \/ ParallelReturn
  \/ ParallelReject

SpecToolNodes == ToolNodeInit /\ [][ToolNodeNext]_vars

----------------------------------------------------------------------------
(* The Functional API agent next to the graph of the basic template, both  *)
(* given the same input, the same model responses and the same tool        *)
(* results.  Here `start` is the input, `executed` the responses of the    *)
(* model in order with what the tools do, `state` the messages of the two  *)
(* runs, `next` where each run stands and `invocations` the number of      *)
(* model responses each run has received.                                  *)

\* the model's responses of a run: tool requests, then an answer
ResponseScripts ==
  UNION {{requests \o <<answer>> :
            requests \in [1..n -> AgentToolRequests], answer \in AgentAnswers} :
         n \in 0..MaxToolRounds}

\* the results of the tool calls of a response, the same for both runs
toolResultsOf(response, outcome) ==
  toolMessagesFrom(response.tool_calls,
                   [i \in 1..Len(response.tool_calls) |-> outcome], 1)

\* one turn of the entrypoint's loop up to `break`
EntrypointCallLlm ==
  /\ next.functional = "callLlm"
  /\ \E response \in {executed.responses[invocations.functional + 1]} :
       next' = [next EXCEPT !.functional =
                  IF Len(response.tool_calls) = 0 THEN "returned" ELSE "callTool"]
  /\ invocations' = [invocations EXCEPT !.functional = @ + 1]
  /\ UNCHANGED <<state, start, executed>>

\* the rest of the turn: the tools run and the messages are extended
EntrypointCallTools ==
  /\ next.functional = "callTool"
  /\ \E response \in {executed.responses[invocations.functional]} :
       state' = [state EXCEPT !.functional =
                   @ \o <<response>> \o toolResultsOf(response, executed.outcome)]
  /\ next' = [next EXCEPT !.functional = "callLlm"]
  /\ UNCHANGED <<start, executed, invocations>>

\* the agent node of the graph run
GraphCallModel ==
  /\ next.graph = "agent"
  /\ \E response \in {executed.responses[invocations.graph + 1]} :
       \E s1 \in {AgentState([messages |-> state.graph],
                              callModel([messages |-> state.graph], response))} :
          /\ state' = [state EXCEPT !.graph = s1.messages]
          /\ next' = [next EXCEPT !.graph = BasicEdge("agent", s1)]
  /\ invocations' = [invocations EXCEPT !.graph = @ + 1]
  /\ UNCHANGED <<start, executed>>

\* the tools node of the graph run
GraphCallTools ==
  /\ next.graph = "tools"
  /\ \E response \in {executed.responses[invocations.graph]} :
       \E s1 \in {AgentState([messages |-> state.graph],
                              [messages |-> toolResultsOf(response, executed.outcome)])} :
          /\ state' = [state EXCEPT !.graph = s1.messages]
          /\ next' = [next EXCEPT !.graph = BasicEdge("tools", s1)]
  /\ UNCHANGED <<start, executed, invocations>>

FunctionalInit ==
  /\ start \in {<<HumanMessage(text)>> : text \in UserMessages}
  /\ state = [graph |-> start, functional |-> start]
  /\ next = [graph |-> BasicEdge(START, [messages |-> start]), functional |-> "callLlm"]
  /\ \E responses \in ResponseScripts : \E outcome \in ToolOutcomes :
       executed = [responses |-> responses, outcome |-> outcome]
  /\ invocations = [graph |-> 0, functional |-> 0]

FunctionalNext ==
  \/ EntrypointCallLlm
  \/ EntrypointCallTools
  \/ GraphCallModel
  \/ GraphCallTools

SpecFunctional == FunctionalInit /\ [][FunctionalNext]_vars

----------------------------------------------------------------------------
(* The basic agent compiled with interruptAfter: ["agent"].  Here `start`  *)
(* tells whether an invoke call is in progress ("running") or not ("idle") *)
(* and `invocations` is the list of the message lists the invoke calls on  *)
(* the thread have returned, in order.                                     *)

MaxResumes == 2   \* invoke(null) calls on the thread

interruptAfter == {"agent"}

\* what happens after a node of the run has executed: the call returns the
\* state when the node is an interrupt point or nothing is left to run
afterNode(node, s, nextNode) ==
  IF node \in interruptAfter \/ nextNode = END
  THEN [status |-> "idle", returned |-> <<s.messages>>]
  ELSE [status |-> "running", returned |-> <<>>]

\* graph.invoke({messages: [...]}, config): the first call on the thread
InterruptInvoke ==
  /\ start = "idle"
  /\ next = START
  /\ \E text \in UserMessages :
       \E s1 \in {AgentState(state, [messages |-> <<HumanMessage(text)>>])} :
          /\ state' = s1
          /\ next' = BasicEdge(START, s1)
  /\ start' = "running"
  /\ UNCHANGED <<executed, invocations>>

InterruptAgentAnswers ==
  /\ start = "running"
  /\ next = "agent"
  /\ \E response \in AgentAnswers :
       \E s1 \in {AgentState(state, callModel(state, response))} :
          /\ state' = s1
          /\ next' = BasicEdge("agent", s1)
          /\ start' = afterNode("agent", s1, BasicEdge("agent", s1)).status
          /\ invocations' =
               invocations \o afterNode("agent", s1, BasicEdge("agent", s1)).returned
  /\ executed' = Ran("agent")

InterruptAgentRequests ==
  /\ start = "running"
  /\ next = "agent"
  /\ toolRounds(state) < MaxToolRounds
  /\ \E response \in AgentToolRequests :
       \E s1 \in {AgentState(state, callModel(state, response))} :
          /\ state' = s1
          /\ next' = BasicEdge("agent", s1)
          /\ start' = afterNode("agent", s1, BasicEdge("agent", s1)).status
          /\ invocations' =
               invocations \o afterNode("agent", s1, BasicEdge("agent", s1)).returned
  /\ executed' = Ran("agent")

InterruptTools ==
  /\ start = "running"
  /\ next = "tools"
  /\ \E outcomes \in [1..Len(pendingCalls(state)) -> ToolOutcomes] :
       \E s1 \in {AgentState(state, callTools(state, outcomes))} :
          /\ state' = s1
          /\ next' = BasicEdge("tools", s1)
          /\ start' = afterNode("tools", s1, BasicEdge("tools", s1)).status
          /\ invocations' =
               invocations \o afterNode("tools", s1, BasicEdge("tools", s1)).returned
  /\ executed' = Ran("tools")

\* graph.invoke(null, config) with a next step pending: the run continues
ResumePending ==
  /\ start = "idle"
  /\ next \in BasicNodes
  /\ Len(invocations) <= MaxResumes
  /\ start' = "running"
  /\ UNCHANGED <<state, next, executed, invocations>>

\* graph.invoke(null, config) with nothing pending: the call returns the
\* thread's state as it is
ResumeFinished ==
  /\ start = "idle"
  /\ next = END
  /\ Len(invocations) <= MaxResumes
  /\ invocations' = Append(invocations, state.messages)
  /\ UNCHANGED <<state, next, executed, start>>

InterruptInit ==
  /\ state = AgentStateDefault
  /\ start = "idle"
  /\ next = START
  /\ executed = [n \in BasicNodes |-> 0]
  /\ invocations = <<>>

InterruptNext ==
  \/ InterruptInvoke
  \/ InterruptAgentAnswers
  \/ InterruptAgentRequests
  \/ InterruptTools
  \/ ResumePending
  \/ ResumeFinished

SpecInterrupt == InterruptInit /\ [][InterruptNext]_vars

----------------------------------------------------------------------------
(* Nodes that call interrupt().  One graph START -> node -> END per node,  *)
(* compiled with a checkpointer and run on one thread.  `start` holds the  *)
(* node of the graph and the resume values the thread has received for the *)
(* pending node, `executed` counts what the node's executions have called  *)
(* and lists what the interrupt() calls of the latest execution returned,  *)
(* `invocations` counts the invoke calls.  JSON values are written as      *)
(* their text.                                                             *)

HumanNodes == {"approvalNode", "inputValidation"}

HumanRequests == {"Delete the old logs", "Send the report", "Restart the server"}

ResumeValues == {"true", "false", "null", "{\"edited\":\"New content\"}",
                 "user@example.com", "not an email"}

\* the values `!value` is true for
Falsy == {"false", "null", "0", ""}

HumanStateDefault == [messages |-> <<>>, result |-> "", email |-> ""]

HumanStateMerge(s, u) ==
  [messages |-> IF Has(u, "messages") THEN s.messages \o u.messages ELSE s.messages,
   result |-> IF Has(u, "result") THEN u.result ELSE s.result,
   email |-> IF Has(u, "email") THEN u.email ELSE s.email]

HumanState(s, u) ==
  CHOOSE r \in {HumanStateMerge(a, b) : a \in {s}, b \in {u}} : TRUE

determineAction(s) == lastContent(s.messages)

executeAction(action) == "Executed: " \o action

isValidEmail(input) == includes(input, "@")

\* faulty variant: every interrupt() call gets the latest resume value
interrupt_Latest(resumes, index) ==
  IF index <= Len(resumes)
  THEN [paused |-> FALSE, value |-> resumes[Len(resumes)]]
  ELSE [paused |-> TRUE, value |-> ""]

\* the index-th interrupt() call of an execution of the node: it returns the
\* resume value of that position, and pauses the run when there is none yet
interrupt(resumes, index) ==
  IF index <= Len(resumes)
  THEN [paused |-> FALSE, value |-> resumes[index]]
  ELSE [paused |-> TRUE, value |-> ""]

\* faulty variant: the action is executed before approval is asked
approvalNode_ExecuteFirst(s, resumes) ==
  LET action == determineAction(s)
      approved == interrupt(resumes, 1)
  IN [paused |-> approved.paused,
      update |-> IF approved.paused THEN [none |-> 0]
                 ELSE [result |-> executeAction(action)],
      returned |-> IF approved.paused THEN <<>> ELSE <<approved.value>>,
      calls |-> [determineAction |-> 1, executeAction |-> 1, isValidEmail |-> 0]]

\* one execution of approvalNode from its first line, given the resume
\* values of the thread: whether it paused, the update it returned, what
\* the interrupt() calls returned and what it called
approvalNode(s, resumes) ==
  LET action == determineAction(s)
      approved == interrupt(resumes, 1)
  IN IF approved.paused
     THEN [paused |-> TRUE, update |-> [none |-> 0], returned |-> <<>>,
           calls |-> [determineAction |-> 1, executeAction |-> 0, isValidEmail |-> 0]]
     ELSE IF approved.value \in Falsy
     THEN [paused |-> FALSE, update |-> [messages |-> <<AIMessage("Cancelled.")>>],
           returned |-> <<approved.value>>,
           calls |-> [determineAction |-> 1, executeAction |-> 0, isValidEmail |-> 0]]
     ELSE [paused |-> FALSE, update |-> [result |-> executeAction(action)],
           returned |-> <<approved.value>>,
           calls |-> [determineAction |-> 1, executeAction |-> 1, isValidEmail |-> 0]]

\* while (true) { input = interrupt(...); if (isValidEmail(input)) return ... }
\* from the index-th turn of the loop on
RECURSIVE inputValidationFrom(_, _)
inputValidationFrom(resumes, index) ==
  LET input == interrupt(resumes, index)
  IN IF input.paused
     THEN [paused |-> TRUE, update |-> [none |-> 0], returned |-> <<>>,
           calls |-> [determineAction |-> 0, executeAction |-> 0, isValidEmail |-> 0]]
     ELSE IF isValidEmail(input.value)
     THEN [paused |-> FALSE, update |-> [email |-> input.value],
           returned |-> <<input.value>>,
           calls |-> [determineAction |-> 0, executeAction |-> 0, isValidEmail |-> 1]]
     ELSE LET rest == inputValidationFrom(resumes, index + 1)
          IN [rest EXCEPT !.returned = <<input.value>> \o @,
                          !.calls.isValidEmail = @ + 1]

inputValidation(s, resumes) == inputValidationFrom(resumes, 1)

\* faulty variant: a resumed node is not executed again
executeNode_Once(node, s, resumes) ==
  LET run == IF node = "approvalNode" THEN approvalNode(s, resumes)
             ELSE inputValidation(s, resumes)
  IN IF resumes = <<>> THEN run
     ELSE [run EXCEPT !.calls.determineAction = 0]

executeNode(node, s, resumes) ==
  IF node = "approvalNode" THEN approvalNode(s, resumes)
  ELSE inputValidation(s, resumes)

\* the thread after an execution of the pending node
AfterExecution(s, resumes, run) ==
  /\ state' = HumanState(s, run.update)
  /\ next' = IF run.paused THEN start.node ELSE END
  /\ start' = [start EXCEPT !.resumes = IF run.paused THEN resumes ELSE <<>>]
  /\ executed' =
       [entries |-> executed.entries + 1,
        determineAction |-> executed.determineAction + run.calls.determineAction,
        executeAction |-> executed.executeAction + run.calls.executeAction,
        isValidEmail |-> executed.isValidEmail + run.calls.isValidEmail,
        resumes |-> resumes,
        returned |-> run.returned]
  /\ invocations' = invocations + 1

\* graph.invoke({messages: [...]}, config): the run enters the node
HumanInvoke ==
  /\ next = START
  /\ \E request \in HumanRequests :
       \E s1 \in {HumanState(state, [messages |-> <<HumanMessage(request)>>])} :
          \E run \in {executeNode(start.node, s1, <<>>)} :
             AfterExecution(s1, <<>>, run)

\* graph.invoke(new Command({resume: value}), config) on the paused thread:
\* the node is executed again from its first line
HumanResume ==
  /\ next \in HumanNodes
  /\ Len(start.resumes) < MaxResumes
  /\ \E value \in ResumeValues :
       \E resumes \in {Append(start.resumes, value)} :
          \E run \in {executeNode(start.node, state, resumes)} :
             AfterExecution(state, resumes, run)

HumanInit ==
  /\ state = HumanStateDefault
  /\ next = START
  /\ \E node \in HumanNodes : start = [node |-> node, resumes |-> <<>>]
  /\ executed = [entries |-> 0, determineAction |-> 0, executeAction |-> 0,
                 isValidEmail |-> 0, resumes |-> <<>>, returned |-> <<>>]
  /\ invocations = 0

HumanNext ==
  \/ HumanInvoke
  \/ HumanResume

SpecHuman == HumanInit /\ [][HumanNext]_vars

----------------------------------------------------------------------------
(* The basic agent on several threads of one checkpointer.  Here `state`,  *)
(* `next`, `executed` and `start` hold one value per thread_id, and        *)
(* `invocations` holds per thread_id the texts sent on it, in order.       *)

MaxThreadInvocations == 3   \* invocations of the graph over all threads
MaxThreadToolRounds == 1    \* tool requests of the model on one thread

Threads == {"user-123-conversation-1", "user-456-conversation-1"}

ThreadMessages == {"My name is Alice", "What is my name?"}

ThreadToolRequests ==
  {AIMessageWithCalls("", <<ToolCall("call_1", "example_tool", "test")>>)}

\* faulty variant: the thread_id is ignored when a checkpoint is read
getCheckpoint_Shared(saved, thread_id) == saved[CHOOSE t \in Threads : TRUE]

\* the checkpointer: the state saved last under thread_id, the graph's
\* defaults when nothing was saved
getCheckpoint(saved, thread_id) == saved[thread_id]

\* the checkpointer: save s under thread_id
putCheckpoint(saved, thread_id, s) == [saved EXCEPT ![thread_id] = s]

RanOn(t, node) == [executed EXCEPT ![t][node] = @ + 1]

totalInvocations ==
  LET a == CHOOSE t \in Threads : TRUE
      b == CHOOSE t \in Threads : t # a
  IN Len(invocations[a]) + Len(invocations[b])

\* graph.invoke(input, {configurable: {thread_id: t}})
ThreadInvoke(t) ==
  /\ next[t] \in {START, END}
  /\ totalInvocations < MaxThreadInvocations
  /\ \E text \in ThreadMessages :
       \E s1 \in {AgentState(getCheckpoint(state, t),
                              [messages |-> <<HumanMessage(text)>>])} :
          /\ state' = putCheckpoint(state, t, s1)
          /\ start' = [start EXCEPT ![t] = s1]
          /\ next' = [next EXCEPT ![t] = BasicEdge(START, s1)]
          /\ invocations' = [invocations EXCEPT ![t] = Append(@, text)]
  /\ executed' = [executed EXCEPT ![t] = [n \in BasicNodes |-> 0]]

ThreadAgentAnswers(t) ==
  /\ next[t] = "agent"
  /\ \E response \in AgentAnswers :
       \E s1 \in {AgentState(getCheckpoint(state, t),
                              callModel(getCheckpoint(state, t), response))} :
          /\ state' = putCheckpoint(state, t, s1)
          /\ next' = [next EXCEPT ![t] = BasicEdge("agent", s1)]
  /\ executed' = RanOn(t, "agent")
  /\ UNCHANGED <<start, invocations>>

ThreadAgentRequests(t) ==
  /\ next[t] = "agent"
  /\ toolRounds(getCheckpoint(state, t)) < MaxThreadToolRounds
  /\ \E response \in ThreadToolRequests :
       \E s1 \in {AgentState(getCheckpoint(state, t),
                              callModel(getCheckpoint(state, t), response))} :
          /\ state' = putCheckpoint(state, t, s1)
          /\ next' = [next EXCEPT ![t] = BasicEdge("agent", s1)]
  /\ executed' = RanOn(t, "agent")
  /\ UNCHANGED <<start, invocations>>

ThreadTools(t) ==
  /\ next[t] = "tools"
  /\ \E outcomes \in [1..Len(pendingCalls(getCheckpoint(state, t))) -> ToolOutcomes] :
       \E s1 \in {AgentState(getCheckpoint(state, t),
                              callTools(getCheckpoint(state, t), outcomes))} :
          /\ state' = putCheckpoint(state, t, s1)
          /\ next' = [next EXCEPT ![t] = BasicEdge("tools", s1)]
  /\ executed' = RanOn(t, "tools")
  /\ UNCHANGED <<start, invocations>>

ThreadsInit ==
  /\ state = [t \in Threads |-> AgentStateDefault]
  /\ start = [t \in Threads |-> AgentStateDefault]
  /\ next = [t \in Threads |-> START]
  /\ executed = [t \in Threads |-> [n \in BasicNodes |-> 0]]
  /\ invocations = [t \in Threads |-> <<>>]

ThreadsNext ==
  \E t \in Threads :
    \/ ThreadInvoke(t)
    \/ ThreadAgentAnswers(t)
    \/ ThreadAgentRequests(t)
    \/ ThreadTools(t)

SpecThreads == ThreadsInit /\ [][ThreadsNext]_vars

----------------------------------------------------------------------------
(* The reducers of a state schema: updates applied to the state one after  *)
(* the other.  Here `executed` is the list of the updates applied so far.  *)

MaxUpdates == 3   \* updates applied to the state

\* faulty variant: the reducer keeps the update only
concat_Overwrite(existing, new_) == new_

\* reducer: (existing, new_) => existing.concat(new_), new_ an array
concat(existing, new_) == existing \o new_

\* reducer: (x, y) => x + y
add(x, y) == x + y

\* the defaults of the schema
ReducerStateDefault ==
  [currentStep |-> "start", searchResults |-> <<>>, iterations |-> 0]

\* merge an update: a field with a reducer combines, one without is overwritten
ReducerStateMerge(s, u) ==
  [currentStep   |-> IF Has(u, "currentStep") THEN u.currentStep ELSE s.currentStep,
   searchResults |-> IF Has(u, "searchResults")
                     THEN concat(s.searchResults, u.searchResults) ELSE s.searchResults,
   iterations    |-> IF Has(u, "iterations") THEN add(s.iterations, u.iterations)
                     ELSE s.iterations]

\* the partial updates a node may return
ReducerUpdates ==
  LET steps == {"search", "done"}
      results == {<<>>, <<"r1">>, <<"r2", "r1">>}
  IN {[currentStep |-> c] : c \in steps}
       \cup {[searchResults |-> r] : r \in results}
       \cup {[iterations |-> 1]}
       \cup {[currentStep |-> c, searchResults |-> r] : c \in steps, r \in results}
       \cup {[currentStep |-> c, iterations |-> 1] : c \in steps}
       \cup {[searchResults |-> r, iterations |-> 1] : r \in results}
       \cup {[currentStep |-> c, searchResults |-> r, iterations |-> 1] :
                c \in steps, r \in results}

ApplyUpdate ==
  /\ Len(executed) < MaxUpdates
  /\ \E u \in ReducerUpdates :
       /\ state' = ReducerStateMerge(state, u)
       /\ executed' = Append(executed, u)
  /\ UNCHANGED <<next, start, invocations>>

ReducerInit ==
  /\ state = ReducerStateDefault
  /\ start = ReducerStateDefault
  /\ next = START
  /\ executed = <<>>
  /\ invocations = 0

ReducerNext == ApplyUpdate

SpecReducers == ReducerInit /\ [][ReducerNext]_vars

----------------------------------------------------------------------------
(* The fan-out/fan-in graph START -> start -> {research, analyze} ->       *)
(* combine -> END.  Here `next` is the set of the nodes of the current     *)
(* step, `start` the position of each node in it ("waiting", "running" or  *)
(* "done"), `invocations` the list of the updates the finished nodes of    *)
(* the step have returned, in the order in which they finished, and        *)
(* `executed` the number of executions and the latest update of each node. *)

FanNodes == {"start", "research", "analyze", "combine"}

\* addEdge(from, to): the targets of a node
FanEdges(node) ==
  CASE node = START -> {"start"}
    [] node = "start" -> {"research", "analyze"}
    [] node = "research" -> {"combine"}
    [] node = "analyze" -> {"combine"}
    [] node = "combine" -> {END}

FanStateDefault == [results |-> <<>>]

\* results: Annotation<string[]>({ reducer: (existing, new_) => existing.concat(new_) })
FanStateMerge(s, u) ==
  [results |-> IF Has(u, "results") THEN concat(s.results, u.results) ELSE s.results]

\* the updates a node may return
FanUpdates(node) ==
  CASE node = "start" -> {[results |-> <<"started">>]}
    [] node = "research" -> {[results |-> <<"finding 1">>],
                             [results |-> <<"finding 1", "finding 2">>]}
    [] node = "analyze" -> {[results |-> <<"analysis">>], [results |-> <<>>]}
    [] node = "combine" -> {[results |-> <<"combined">>]}

FanInputs == {[results |-> <<>>], [results |-> <<"seed">>],
              [results |-> <<"seed", "earlier finding">>]}

RECURSIVE applyWrites(_, _)
applyWrites(s, writes) ==
  IF writes = <<>> THEN s
  ELSE applyWrites(FanStateMerge(s, Head(writes).update), Tail(writes))

\* faulty variant: the step ends as soon as one of its nodes has finished
stepComplete_Any(tasks, position) == \E n \in tasks : position[n] = "done"

\* the step is over when every node of it has finished
stepComplete(tasks, position) == \A n \in tasks : position[n] = "done"

\* the nodes triggered by the nodes that have just run
triggered(tasks) == (UNION {FanEdges(n) : n \in tasks}) \ {END}

\* graph.invoke(input)
FanInvoke ==
  /\ next = {}
  /\ invocations = <<>>
  /\ executed.count["start"] = 0
  /\ \E input \in FanInputs : state' = FanStateMerge(state, input)
  /\ next' = FanEdges(START)
  /\ UNCHANGED <<start, executed, invocations>>

\* a node of the current step starts to run
FanBegin ==
  /\ \E n \in next :
       /\ start[n] = "waiting"
       /\ start' = [start EXCEPT ![n] = "running"]
  /\ UNCHANGED <<state, next, executed, invocations>>

\* a running node returns its update
FanFinish ==
  /\ \E n \in next :
       /\ start[n] = "running"
       /\ \E update \in FanUpdates(n) :
            /\ invocations' = Append(invocations, [node |-> n, update |-> update])
            /\ executed' = [count |-> [executed.count EXCEPT ![n] = @ + 1],
                            update |-> [executed.update EXCEPT ![n] = update.results]]
       /\ start' = [start EXCEPT ![n] = "done"]
  /\ UNCHANGED <<state, next>>

\* the step ends: the updates go through the reducer and the nodes the
\* finished nodes lead to make up the next step
FanStepEnd ==
  /\ next # {}
  /\ stepComplete(next, start)
  /\ state' = applyWrites(state, invocations)
  /\ next' = triggered(next)
  /\ start' = [n \in FanNodes |-> "waiting"]
  /\ invocations' = <<>>
  /\ UNCHANGED executed

FanInit ==
  /\ state = FanStateDefault
  /\ next = {}
  /\ start = [n \in FanNodes |-> "waiting"]
  /\ executed = [count |-> [n \in FanNodes |-> 0], update |-> [n \in FanNodes |-> <<>>]]
  /\ invocations = <<>>

FanNext ==
  \/ FanInvoke
  \/ FanBegin
  \/ FanFinish
  \/ FanStepEnd

SpecFanOut == FanInit /\ [][FanNext]_vars

----------------------------------------------------------------------------
(* cachedTool and its cache.  Here `state` is toolCache (a Map: a function *)
(* on the keys it holds), `next` is Date.now() in milliseconds,            *)
(* `invocations` lists the calls that are waiting for actualSearch, `start`*)
(* is toolCache before the latest step of a call, and `executed` counts    *)
(* the calls and the searches and describes the call that returned last.   *)

MaxCalls == 3    \* calls of cachedTool
MaxTicks == 4    \* steps of the clock

CACHE_TTL == 60000

TickMs == 30000

Queries == {"langgraph", "bread"}

\* what actualSearch may resolve to
SearchResults == {"result A", "result B", ""}

cacheKey(query) == "search:" \o query

\* toolCache.get(key): <<>> standing for undefined
toolCacheGet(cache, key) == IF key \in DOMAIN cache THEN <<cache[key]>> ELSE <<>>

\* toolCache.set(key, entry)
toolCacheSet(cache, key, entry) ==
  [k \in DOMAIN cache \cup {key} |-> IF k = key THEN entry ELSE cache[k]]

\* faulty variant: an entry as old as CACHE_TTL still counts
isFresh_Inclusive(cached, now) ==
  cached # <<>> /\ now - cached[1].timestamp <= CACHE_TTL

\* cached && Date.now() - cached.timestamp < CACHE_TTL
isFresh(cached, now) ==
  cached # <<>> /\ now - cached[1].timestamp < CACHE_TTL

\* cachedTool({query}) with a usable entry: it returns the stored result
CachedToolHit ==
  /\ executed.calls < MaxCalls
  /\ \E query \in Queries :
       \E cached \in {toolCacheGet(state, cacheKey(query))} :
          /\ isFresh(cached, next)
          /\ executed' = [calls |-> executed.calls + 1,
                          searches |-> executed.searches,
                          last |-> <<[query |-> query, cached |-> cached,
                                      checkedAt |-> next, searched |-> 0,
                                      returned |-> cached[1].result,
                                      returnedAt |-> next]>>]
  /\ start' = state
  /\ UNCHANGED <<state, next, invocations>>

\* cachedTool({query}) without a usable entry, up to the await: it calls
\* actualSearch
CachedToolMiss ==
  /\ executed.calls < MaxCalls
  /\ \E query \in Queries :
       \E cached \in {toolCacheGet(state, cacheKey(query))} :
          /\ ~isFresh(cached, next)
          /\ invocations' = Append(invocations,
                                   [query |-> query, cached |-> cached, checkedAt |-> next])
  /\ executed' = [executed EXCEPT !.calls = @ + 1, !.searches = @ + 1]
  /\ start' = state
  /\ UNCHANGED <<state, next>>

\* actualSearch resolves for one of the waiting calls: the call stores the
\* result with the time it is now, and returns it
CachedToolStore ==
  /\ \E i \in 1..Len(invocations) :
       \E result \in SearchResults :
          /\ state' = toolCacheSet(state, cacheKey(invocations[i].query),
                                   [result |-> result, timestamp |-> next])
          /\ executed' = [executed EXCEPT
                            !.last = <<[query |-> invocations[i].query,
                                        cached |-> invocations[i].cached,
                                        checkedAt |-> invocations[i].checkedAt,
                                        searched |-> 1,
                                        returned |-> result,
                                        returnedAt |-> next]>>]
          /\ invocations' = [k \in 1..(Len(invocations) - 1) |->
                               IF k < i THEN invocations[k] ELSE invocations[k + 1]]
  /\ start' = state
  /\ UNCHANGED next

\* time passes
ClockTick ==
  /\ next < MaxTicks * TickMs
  /\ next' = next + TickMs
  /\ UNCHANGED <<state, start, executed, invocations>>

CacheInit ==
  /\ state = <<>>
  /\ start = <<>>
  /\ next = 0
  /\ executed = [calls |-> 0, searches |-> 0, last |-> <<>>]
  /\ invocations = <<>>

CacheNext ==
  \/ CachedToolHit
  \/ CachedToolMiss
  \/ CachedToolStore
  \/ ClockTick

SpecCache == CacheInit /\ [][CacheNext]_vars

----------------------------------------------------------------------------
(* summarizeIfNeeded as a node of a chat agent.  Here `state` is the graph *)
(* state, `start` the reducer of its messages, `next` the id the next new  *)
(* message gets, `invocations` the number of messages the conversation has *)
(* added, and `executed` is <<>> or holds the state the latest execution   *)
(* of the node was given and the update it returned.                       *)

MaxTurns == 22       \* messages the conversation adds
MaxSummaries == 2    \* executions of summarizeIfNeeded that summarize

SummarizeThreshold == 20

KeepLast == 10

SystemMessage(c) == [type |-> "system", content |-> c]

\* what summarizeModel may answer
Summaries == {"They talked about LangGraph.", ""}

\* a message as the state stores it: with an id
WithId(message, id) == [id |-> id, message |-> message]

\* the reducer of MessagesAnnotation: a message whose id the state already
\* holds replaces that message, any other message is added at the end
messagesStateReducer(left, right) ==
  LET ids(list) == {list[i].id : i \in 1..Len(list)}
      replaced == [i \in 1..Len(left) |->
                     IF left[i].id \in ids(right)
                     THEN right[CHOOSE j \in 1..Len(right) : right[j].id = left[i].id]
                     ELSE left[i]]
      added == SelectSeq(right, LAMBDA m : m.id \notin ids(left))
  IN replaced \o added

\* the reducers a messages field is declared with
MessageReducers == {"messagesStateReducer", "concat"}

SummaryStateMerge(reducer, s, u) ==
  IF ~Has(u, "messages") THEN s
  ELSE IF reducer = "concat" THEN [messages |-> concat(s.messages, u.messages)]
  ELSE [messages |-> messagesStateReducer(s.messages, u.messages)]

\* messages.slice(-n)
sliceLast(messages, n) ==
  IF Len(messages) <= n THEN messages
  ELSE SubSeq(messages, Len(messages) - n + 1, Len(messages))

\* summarizeIfNeeded(state), summary being the content of the model's
\* answer and id the id the new system message gets in the state
summarizeIfNeeded(s, summary, id) ==
  IF Len(s.messages) < SummarizeThreshold THEN [none |-> 0]
  ELSE [messages |->
          <<WithId(SystemMessage("Previous conversation summary: " \o summary), id)>>
            \o sliceLast(s.messages, KeepLast)]

\* the conversation adds a message
SummaryAppend ==
  /\ invocations < MaxTurns
  /\ \E message \in {IF invocations % 2 = 0 THEN HumanMessage("question")
                       ELSE AIMessage("answer")} :
       state' = SummaryStateMerge(start, state, [messages |-> <<WithId(message, next)>>])
  /\ next' = next + 1
  /\ invocations' = invocations + 1
  /\ executed' = <<>>
  /\ UNCHANGED start

\* the node runs on a short history
SummarySkip ==
  /\ Len(state.messages) < SummarizeThreshold
  /\ \E update \in {summarizeIfNeeded(state, "", next)} :
       /\ executed' = <<[given |-> state, update |-> update]>>
       /\ state' = SummaryStateMerge(start, state, update)
  /\ UNCHANGED <<start, next, invocations>>

\* the node runs on a long history
SummarySummarize ==
  /\ Len(state.messages) >= SummarizeThreshold
  /\ next - invocations < MaxSummaries
  /\ \E summary \in Summaries :
       \E update \in {summarizeIfNeeded(state, summary, next)} :
          /\ executed' = <<[given |-> state, update |-> update]>>
          /\ state' = SummaryStateMerge(start, state, update)
  /\ next' = next + 1
  /\ UNCHANGED <<start, invocations>>

SummaryInit ==
  /\ state = [messages |-> <<>>]
  /\ start \in MessageReducers
  /\ next = 0
  /\ invocations = 0
  /\ executed = <<>>

SummaryNext ==
  \/ SummaryAppend
  \/ SummarySkip
  \/ SummarySummarize

SpecSummary == SummaryInit /\ [][SummaryNext]_vars

----------------------------------------------------------------------------
(* processNode in a graph whose other nodes append messages.  Here `start` *)
(* is the state an execution of processNode in progress was given (<<>>    *)
(* when none is), `next` tells whether one is in progress, `invocations`   *)
(* counts the appends, and `executed` lists what processMessages has been  *)
(* passed, call by call, with the latest update of the node and the        *)
(* lastProcessedIndex it found.                                            *)

MaxAppends == 4       \* messages appended to the thread
MaxExecutions == 3    \* executions of processNode

ProcessTexts == {"first", "second"}

ProcessStateDefault == [messages |-> <<>>, lastProcessedIndex |-> 0, result |-> <<>>]

\* messages accumulate; lastProcessedIndex and result are overwritten
ProcessStateMerge(s, u) ==
  [messages |-> IF Has(u, "messages") THEN s.messages \o u.messages ELSE s.messages,
   lastProcessedIndex |-> IF Has(u, "lastProcessedIndex") THEN u.lastProcessedIndex
                          ELSE s.lastProcessedIndex,
   result |-> IF Has(u, "result") THEN u.result ELSE s.result]

\* messages.slice(from)
sliceFrom(messages, from) ==
  IF from >= Len(messages) THEN <<>> ELSE SubSeq(messages, from + 1, Len(messages))

\* the result of processMessages: one entry per message it was passed
processMessages(newMessages) == [i \in 1..Len(newMessages) |-> "processed"]

\* faulty variant: the index is set to the number of new messages
processNode_NewLength(s) ==
  LET newMessages == sliceFrom(s.messages, s.lastProcessedIndex)
  IN IF Len(newMessages) = 0 THEN [none |-> 0]
     ELSE [result |-> processMessages(newMessages),
           lastProcessedIndex |-> Len(newMessages)]

processNode(s) ==
  LET newMessages == sliceFrom(s.messages, s.lastProcessedIndex)
  IN IF Len(newMessages) = 0 THEN [none |-> 0]
     ELSE [result |-> processMessages(newMessages),
           lastProcessedIndex |-> Len(s.messages)]

\* another node's update appends a message
ProcessAppend ==
  /\ invocations < MaxAppends
  /\ \E text \in ProcessTexts :
       state' = ProcessStateMerge(state, [messages |-> <<HumanMessage(text)>>])
  /\ invocations' = invocations + 1
  /\ UNCHANGED <<start, next, executed>>

\* processNode is given the state
ProcessBegin ==
  /\ next = "idle"
  /\ executed.executions < MaxExecutions
  /\ start' = <<state>>
  /\ next' = "processing"
  /\ UNCHANGED <<state, executed, invocations>>

\* processNode returns and its update is merged into the state
ProcessFinish ==
  /\ next = "processing"
  /\ \E given \in {start[1]} : \E update \in {processNode(start[1])} :
       /\ state' = ProcessStateMerge(state, update)
       /\ executed' =
            [executions |-> executed.executions + 1,
             passed |-> IF Has(update, "result")
                        THEN Append(executed.passed,
                                    sliceFrom(given.messages, given.lastProcessedIndex))
                        ELSE executed.passed,
             found |-> state.lastProcessedIndex,
             given |-> <<given>>,
             update |-> <<update>>]
  /\ start' = <<>>
  /\ next' = "idle"
  /\ UNCHANGED invocations

ProcessInit ==
  /\ state = ProcessStateDefault
  /\ start = <<>>
  /\ next = "idle"
  /\ executed = [executions |-> 0, passed |-> <<>>, found |-> 0,
                 given |-> <<>>, update |-> <<>>]
  /\ invocations = 0

ProcessNext ==
  \/ ProcessAppend
  \/ ProcessBegin
  \/ ProcessFinish

SpecProcess == ProcessInit /\ [][ProcessNext]_vars

----------------------------------------------------------------------------
(* The reference supervisor graph.  Here `next` is the node to run,        *)
(* `start` the latest response of the supervisor model (its tool calls,    *)
(* each the selection it carries), `executed` counts the worker            *)
(* executions since the latest supervisor step and `invocations` counts    *)
(* the supervisor steps.                                                   *)

MaxSupervisorSteps == 4

members == {"researcher", "coder"}

Undefined == "undefined"

\* the responses of supervisorModel: no tool call, or a call of route with
\* a selection its schema allows
RouteResponses == {<<>>} \cup {<<selection>> : selection \in members \cup {"FINISH"}}

\* faulty variant: the update always replaces the value
nextReducer_Replace(x, y) == y

\* reducer: (x, y) => y ?? x ?? END
nextReducer(x, y) ==
  IF y # Undefined THEN y ELSE IF x # Undefined THEN x ELSE END

SupervisorStateDefault == [messages |-> <<>>, next |-> END]

SupervisorStateMerge(s, u) ==
  [messages |-> IF Has(u, "messages") THEN s.messages \o u.messages ELSE s.messages,
   next |-> IF Has(u, "next") THEN nextReducer(s.next, u.next) ELSE s.next]

\* supervisorNode, given the tool calls of the model's response
supervisorNode(s, toolCalls) ==
  LET selection == IF toolCalls = <<>> THEN Undefined ELSE toolCalls[1]
  IN [next |-> IF selection = "FINISH" THEN END ELSE selection]

\* researcherNode / coderNode: the agent's last message under the worker's name
workerNode(name, s) ==
  [messages |-> <<[type |-> "human", content |-> "result of " \o name, name |-> name]>>]

\* the edges of the graph; the supervisor's conditional edge is state.next
SupervisorEdge(node, s) ==
  CASE node = START -> "supervisor"
    [] node = "supervisor" -> s.next
    [] node \in members -> "supervisor"

SupervisorTargets == members \cup {END}

\* multiAgent.invoke({messages: [...]})
SupervisorInvoke ==
  /\ next = START
  /\ \E text \in UserMessages :
       \E s1 \in {SupervisorStateMerge(state, [messages |-> <<HumanMessage(text)>>])} :
          /\ state' = s1
          /\ next' = SupervisorEdge(START, s1)
  /\ UNCHANGED <<start, executed, invocations>>

SupervisorStep ==
  /\ next = "supervisor"
  /\ invocations < MaxSupervisorSteps
  /\ \E toolCalls \in RouteResponses :
       \E s1 \in {SupervisorStateMerge(state, supervisorNode(state, toolCalls))} :
          /\ state' = s1
          /\ next' = SupervisorEdge("supervisor", s1)
          /\ start' = <<toolCalls>>
  /\ executed' = [m \in members |-> 0]
  /\ invocations' = invocations + 1

WorkerStep ==
  /\ next \in members
  /\ \E s1 \in {SupervisorStateMerge(state, workerNode(next, state))} :
       /\ state' = s1
       /\ next' = SupervisorEdge(next, s1)
  /\ executed' = [executed EXCEPT ![next] = @ + 1]
  /\ UNCHANGED <<start, invocations>>

SupervisorInit ==
  /\ state = SupervisorStateDefault
  /\ next = START
  /\ start = <<>>
  /\ executed = [m \in members |-> 0]
  /\ invocations = 0

SupervisorNext ==
  \/ SupervisorInvoke
  \/ SupervisorStep
  \/ WorkerStep

SpecSupervisor == SupervisorInit /\ [][SupervisorNext]_vars

----------------------------------------------------------------------------
(* Two runs of one template graph (multi-agent or RAG) that start from the *)
(* same state and are given the same responses.  Here `state`, `next` and  *)
(* `invocations` hold for each run its state, the node to run and the      *)
(* number of nodes it has executed; `executed` lists, for each position of *)
(* a run, the node that the run which got there first executed and the     *)
(* response it was given (of the model, or of the retrieval); `start` is   *)
(* the state both runs started from.                                       *)

MaxLag == 2   \* positions one run may be ahead of the other

Runs == {"a", "b"}

\* what the node may be given as a response
NodeResponses(node, s) ==
  CASE node = "supervisor" -> SupervisorAnswers
    [] node = "researcher" -> ResearcherAnswers(s)
    [] node = "writer" -> WriterAnswers(s)
    [] node = "finalize" -> {""}
    [] node = "retrieve" -> retrieveDocuments(retrieveQuery(s))
    [] node = "grade" -> [1..Len(s.documents) -> GraderAnswers]
    [] node = "generate" -> GenerateAnswers
    [] node = "rewrite" -> RewriteAnswers

\* the state after the node has run with the response
RunNode(node, s, response) ==
  CASE node = "supervisor" -> MultiAgentState(s, supervisor(s, response))
    [] node = "researcher" -> MultiAgentState(s, researcher(s, response))
    [] node = "writer" -> MultiAgentState(s, writer(s, response))
    [] node = "finalize" -> MultiAgentState(s, finalize(s))
    [] node = "retrieve" -> RAGState(s, retrieve(s, response))
    [] node = "grade" -> RAGState(s, gradeDocuments(s, response))
    [] node = "generate" -> RAGState(s, generate(s, response))
    [] node = "rewrite" -> RAGState(s, rewriteQuery(s, response))

NodeEdge(node, s) ==
  IF node \in MultiNodes THEN MultiEdge(node, s) ELSE RAGEdge(node, s)

\* a run executes its node with the response given
RunStep(run, response) ==
  \E s1 \in {RunNode(next[run], state[run], response)} :
     /\ state' = [state EXCEPT ![run] = s1]
     /\ next' = [next EXCEPT ![run] = NodeEdge(next[run], s1)]
     /\ invocations' = [invocations EXCEPT ![run] = @ + 1]

\* a run reaches a position no run has reached before: the response is new
TwinLead ==
  /\ \E run \in Runs :
       /\ next[run] # END
       /\ invocations[run] = Len(executed)
       /\ \A other \in Runs : Len(executed) - invocations[other] < MaxLag
       /\ \E response \in NodeResponses(next[run], state[run]) :
            /\ RunStep(run, response)
            /\ executed' = Append(executed, [node |-> next[run], response |-> response])
  /\ UNCHANGED start

\* a run reaches a position the other run has been at: it is given the
\* response the other run was given there
TwinFollow ==
  /\ \E run \in Runs :
       /\ next[run] # END
       /\ invocations[run] < Len(executed)
       /\ next[run] = executed[invocations[run] + 1].node
       /\ RunStep(run, executed[invocations[run] + 1].response)
  /\ UNCHANGED <<start, executed>>

TwinInit ==
  /\ start \in {MultiAgentState(MultiAgentStateDefault, [messages |-> <<HumanMessage(r)>>]) :
                   r \in UserRequests}
              \cup {RAGState(RAGStateDefault, input) : input \in RAGInputs}
  /\ state = [run \in Runs |-> start]
  /\ next = [run \in Runs |->
               IF "task" \in DOMAIN start THEN MultiEdge(START, start)
               ELSE RAGEdge(START, start)]
  /\ invocations = [run \in Runs |-> 0]
  /\ executed = <<>>

TwinNext ==
  \/ TwinLead
  \/ TwinFollow

SpecTwin == TwinInit /\ [][TwinNext]_vars

----------------------------------------------------------------------------
(* batchedToolNode as a function of the state it is given.  Here           *)
(* `executed` holds what invoking the tool of each call does and, once the *)
(* node has run, the messages it returned; `next` tells whether it has     *)
(* run and whether it returned or threw.                                   *)

MaxBatchCalls == 3   \* tool calls of the last message

\* the tools registered with the node
batchToolsByName == toolsByName \cup {"search"}

\* the names a tool call may carry
CalledNames == batchToolsByName \cup {"other_tool", "constructor"}

CallIds == <<"call_1", "call_2", "call_3", "call_4">>

\* the lists of tool calls of the last message
BatchCalls ==
  UNION {{[i \in 1..n |-> ToolCall(CallIds[i], names[i], "query " \o CallIds[i])] :
            names \in [1..n -> CalledNames]} : n \in 0..MaxBatchCalls}

\* the keys of `grouped` in the order of Object.entries: the names in the
\* order in which they first occur
RECURSIVE groupNames(_, _)
groupNames(calls, seen) ==
  IF calls = <<>> THEN <<>>
  ELSE IF Head(calls).name \in seen THEN groupNames(Tail(calls), seen)
  ELSE <<Head(calls).name>> \o groupNames(Tail(calls), seen \cup {Head(calls).name})

\* grouped[name]: the positions of the calls of that name, in order
groupOf(calls, name) ==
  SelectSeq([i \in 1..Len(calls) |-> i], LAMBDA i : calls[i].name = name)

batchSearch(queries) == [i \in 1..Len(queries) |-> "Results for: " \o queries[i]]

\* the messages pushed for one group
groupMessages(calls, name) ==
  LET group == groupOf(calls, name)
  IN IF name = "search" /\ Len(group) > 1
     THEN LET batchResults == batchSearch([i \in 1..Len(group) |-> calls[group[i]].args.query])
          IN [i \in 1..Len(group) |-> ToolMessage(batchResults[i], calls[group[i]].id)]
     ELSE [i \in 1..Len(group) |->
             ToolResult("Results for: " \o calls[group[i]].args.query, calls[group[i]])]

\* whether the node throws: `grouped` is an ordinary object, so a name that
\* Object.prototype holds has a value that is no array; a name without a
\* registered tool has nothing to invoke; a tool may throw and nothing
\* catches it
batchedToolNodeThrows(calls, outcomes) ==
  \/ \E i \in 1..Len(calls) : calls[i].name \in ObjectPrototype
  \/ \E i \in 1..Len(calls) :
        /\ calls[i].name \notin batchToolsByName
        /\ ~(calls[i].name = "search" /\ Len(groupOf(calls, "search")) > 1)
  \/ \E i \in 1..Len(calls) : outcomes[i] # "returns"

RECURSIVE allGroupMessages(_, _)
allGroupMessages(calls, names) ==
  IF names = <<>> THEN <<>>
  ELSE groupMessages(calls, Head(names)) \o allGroupMessages(calls, Tail(names))

\* lastMessage?.tool_calls ?? []
batchToolCalls(s) ==
  IF Len(s.messages) = 0 \/ ~Has(s.messages[Len(s.messages)], "tool_calls") THEN <<>>
  ELSE s.messages[Len(s.messages)].tool_calls

batchedToolNode(s, outcomes) ==
  LET calls == batchToolCalls(s)
  IN IF batchedToolNodeThrows(calls, outcomes) THEN [throws |-> TRUE, messages |-> <<>>]
     ELSE [throws |-> FALSE, messages |-> allGroupMessages(calls, groupNames(calls, {}))]

EvalBatchedToolNode ==
  /\ next = "tools"
  /\ \E result \in {batchedToolNode(state, executed.outcomes)} :
       /\ executed' = [executed EXCEPT !.returned = <<result.messages>>]
       /\ next' = IF result.throws THEN "thrown" ELSE "returned"
  /\ UNCHANGED <<state, start, invocations>>

BatchInit ==
  /\ state \in {[messages |-> <<HumanMessage("question")>>]}
               \cup {[messages |-> <<HumanMessage("question"), AIMessageWithCalls("", calls)>>] :
                       calls \in BatchCalls}
  /\ start = state
  /\ next = "tools"
  /\ \E outcomes \in [1..Len(batchToolCalls(state)) -> ToolOutcomes] :
       executed = [outcomes |-> outcomes, returned |-> <<>>]
  /\ invocations = 1

BatchNext == EvalBatchedToolNode

SpecBatch == BatchInit /\ [][BatchNext]_vars

----------------------------------------------------------------------------
(* The intake of the skill: the user's response, as a list of words, is    *)
(* `state`; routing sets `next` to what the routing table selects.         *)

MaxWords == 2   \* words of a response

\* the rows of the routing table that name a workflow
RoutingTable ==
  <<[responses |-> {"1", "new", "create", "build", "start", "scaffold"},
     workflow |-> "workflows/build-new-agent.md"],
    [responses |-> {"2", "add", "feature", "implement", "extend"},
     workflow |-> "workflows/add-feature.md"],
    [responses |-> {"3", "audit", "review", "check", "assess", "evaluate"},
     workflow |-> "workflows/audit-agent.md"],
    [responses |-> {"4", "debug", "fix", "broken", "error", "bug", "issue"},
     workflow |-> "workflows/debug-agent.md"],
    [responses |-> {"5", "test", "tests", "testing", "coverage"},
     workflow |-> "workflows/write-tests.md"],
    [responses |-> {"6", "optimize", "performance", "slow", "fast", "improve"},
     workflow |-> "workflows/optimize-agent.md"]>>

\* the last row: 7, other
ClarifyIntent == "Clarify intent, then select appropriate workflow"

\* faulty variant: the index lists the tests workflow under another name
WorkflowsIndex_Renamed ==
  {"build-new-agent.md", "add-feature.md", "audit-agent.md", "debug-agent.md",
   "test-agent.md", "optimize-agent.md"}

\* the files of the workflows index, all in workflows/
WorkflowsIndex ==
  {"build-new-agent.md", "add-feature.md", "audit-agent.md", "debug-agent.md",
   "write-tests.md", "optimize-agent.md"}

WorkflowsDir == "workflows/"

ListedResponses == UNION {RoutingTable[i].responses : i \in 1..Len(RoutingTable)}

\* the words a response is made of
Vocabulary == ListedResponses \cup {"7", "other", "deploy", "hello"}

Responses == UNION {[1..n -> Vocabulary] : n \in 0..MaxWords}

\* the rows a response matches: it names the row's number or one of its keywords
rowsMatching(response) ==
  {i \in 1..Len(RoutingTable) :
     \E k \in 1..Len(response) : response[k] \in RoutingTable[i].responses}

\* faulty variant: a response that matches no row starts the first workflow
route_FirstRowDefault(response) ==
  IF rowsMatching(response) = {} THEN {RoutingTable[1].workflow}
  ELSE {RoutingTable[i].workflow : i \in rowsMatching(response)}

\* what the table selects for a response
route(response) ==
  IF rowsMatching(response) = {} THEN {ClarifyIntent}
  ELSE {RoutingTable[i].workflow : i \in rowsMatching(response)}

RouteResponse ==
  /\ next = START
  /\ \E w \in route(state) : next' = w
  /\ UNCHANGED <<state, start, executed, invocations>>

IntakeInit ==
  /\ state \in Responses
  /\ start = state
  /\ next = START
  /\ executed = <<>>
  /\ invocations = 0

IntakeNext == RouteResponse

SpecIntake == IntakeInit /\ [][IntakeNext]_vars

----------------------------------------------------------------------------
(* The three template graphs as declared: addEdge gives a node its one     *)
(* target, addConditionalEdges the list of targets its routing function    *)
(* may select.                                                             *)

Templates == {"basic", "rag", "multi"}

TemplateNodes(template) ==
  CASE template = "basic" -> BasicNodes
    [] template = "rag" -> RAGNodes
    [] template = "multi" -> MultiNodes

BasicTargets(node) ==
  CASE node = START -> {"agent"}
    [] node = "agent" -> {"tools", END}
    [] node = "tools" -> {"agent"}

RAGTargets(node) ==
  CASE node = START -> {"retrieve"}
    [] node = "retrieve" -> {"grade"}
    [] node = "grade" -> {"generate", "rewrite"}
    [] node = "rewrite" -> {"retrieve"}
    [] node = "generate" -> {END}

MultiTargets(node) ==
  CASE node = START -> {"supervisor"}
    [] node = "supervisor" -> {"researcher", "writer", "finalize"}
    [] node = "researcher" -> {"supervisor"}
    [] node = "writer" -> {"supervisor"}
    [] node = "finalize" -> {END}

Targets(template, node) ==
  CASE template = "basic" -> BasicTargets(node)
    [] template = "rag" -> RAGTargets(node)
    [] template = "multi" -> MultiTargets(node)

\* the template a graph state belongs to, by its channels
templateOf(s) ==
  IF Has(s, "task") THEN "multi" ELSE IF Has(s, "query") THEN "rag" ELSE "basic"

TemplatesInit == MultiInit \/ RAGInit \/ BasicInit

TemplatesNext ==
  \/ templateOf(state) = "multi" /\ MultiNext
  \/ templateOf(state) = "rag" /\ RAGNext
  \/ templateOf(state) = "basic" /\ BasicNext

SpecTemplates == TemplatesInit /\ [][TemplatesNext]_vars

----------------------------------------------------------------------------
(* Claims about the multi-agent template *)

Workers == {"researcher", "writer"}

\* C1: in a run that starts with iterations = 0 the researcher and writer
\* execute at most 10 times in total and the supervisor at most 11 times,
\* whatever the supervisor model answers; once iterations exceeds 10 the
\* routing function returns finalize.
C1_IterationLimit ==
  /\ start.iterations = 0 =>
       /\ executed["researcher"] + executed["writer"] <= 10
       /\ executed["supervisor"] <= 11
  /\ state.iterations > 10 => routeFromSupervisor(state) = "finalize"

C1_Witness ==
  /\ start.iterations = 0
  /\ executed["researcher"] + executed["writer"] = 10
  /\ executed["supervisor"] = 11
  /\ state.iterations = 11
  /\ state.currentAgent = "researcher"
  /\ next = "finalize"

\* an upper bound on the node executions a run still has ahead of it
MultiVariant ==
  LET left == IF state.iterations < IterationLimit
              THEN IterationLimit - state.iterations ELSE 0
  IN CASE next \in {START, END} -> 0
       [] next = "finalize" -> 1
       [] next = "supervisor" -> 2 + 2 * left
       [] next \in Workers -> 3 + 2 * left

\* C2: every run of the multi-agent graph terminates, each model call
\* returning: while a node is scheduled a step is possible, every node
\* execution strictly decreases a natural-number measure of the run (so no
\* run is infinite), the run has executed finalize exactly once when it is
\* at END and not before finalize is scheduled, and END is entered only by
\* the step that executes finalize.
C2_Terminates ==
  /\ [](next \in MultiNodes => ENABLED MultiStep)
  /\ [](MultiVariant \in Nat)
  /\ [][MultiStep => MultiVariant' < MultiVariant]_vars
  /\ [](next = END => executed["finalize"] = 1)
  /\ [](next \in MultiNodes => executed["finalize"] = 0)
  /\ [][next' = END => next = "finalize"]_vars

C2_Witness ==
  /\ next = END
  /\ executed["finalize"] = 1
  /\ executed["researcher"] >= 1
  /\ executed["writer"] >= 1

\* C3: routeFromSupervisor is total: it returns researcher, writer or
\* finalize, by this precedence: iterations > 10 gives finalize; else a
\* decision containing "finish" in any letter case gives finalize; else
\* one containing "researcher" gives researcher; else one containing
\* "writer" gives writer; anything else gives finalize.
C3_RouteTotal ==
  LET d == toLowerCase(state.currentAgent)
      over == state.iterations > 10
      fin == includes(d, "finish")
      res == includes(d, "researcher")
      wri == includes(d, "writer")
  IN (Has(state, "currentAgent") /\ next # START) =>
       /\ next \in {"researcher", "writer", "finalize"}
       /\ over => next = "finalize"
       /\ (~over /\ fin) => next = "finalize"
       /\ (~over /\ ~fin /\ res) => next = "researcher"
       /\ (~over /\ ~fin /\ ~res /\ wri) => next = "writer"
       /\ (~over /\ ~fin /\ ~res /\ ~wri) => next = "finalize"

C3_Witness ==
  /\ Has(state, "currentAgent")
  /\ state.currentAgent = "researcher, then FINISH"
  /\ state.iterations = 10
  /\ next = "finalize"

\* C4: the supervisor is the first node of every run and every researcher
\* or writer execution is immediately followed by a supervisor execution,
\* so no two worker executions occur without a supervisor execution
\* between them.
C4_SupervisorBetween ==
  [][/\ (next \in {START, END} => next' = "supervisor")
     /\ (next \in Workers => next' = "supervisor")
     /\ (next' \in Workers => next = "supervisor")]_vars

C4_Witness ==
  /\ next = "supervisor"
  /\ executed["supervisor"] = 2
  /\ executed["researcher"] = 1
  /\ executed["writer"] = 1

\* C17: at every researcher and writer execution state.task equals the
\* content of the user's request message that started the run; the
\* supervisor never replaces it with a worker's output.
C17_TaskIsRequest ==
  next \in Workers => state.task = lastContent(start.messages)

\* the worker executions on the thread: each left one message in the state
workerRuns(s) ==
  Cardinality({i \in 1..Len(s.messages) :
                 /\ s.messages[i].type = "ai"
                 /\ \/ startsWith(s.messages[i].content, "[Researcher] ")
                    \/ startsWith(s.messages[i].content, "[Writer] ")})

\* C18: the safety limit counts per thread: over all invocations on the
\* thread the researcher and writer execute at most 10 times in total, and
\* an invocation that starts with iterations above 10 executes the
\* supervisor once, then finalize, and no worker.
C18_LimitPerThread ==
  /\ workerRuns(state) <= 10
  /\ workerRuns(state) <= state.iterations
  /\ start.iterations > 10 =>
       /\ executed["researcher"] = 0 /\ executed["writer"] = 0
       /\ executed["supervisor"] <= 1 /\ executed["finalize"] <= 1
       /\ next \in {"supervisor", "finalize", END}
       /\ next = "finalize" => executed["supervisor"] = 1
       /\ next = END => executed["supervisor"] = 1 /\ executed["finalize"] = 1

C18_Witness ==
  /\ invocations = 2
  /\ start.iterations = 11
  /\ workerRuns(state) = 10
  /\ executed["supervisor"] = 1
  /\ executed["finalize"] = 1
  /\ next = END

\* the positions of the messages a worker left in the state
messagesOf(s, prefix) ==
  {i \in 1..Len(s.messages) :
     s.messages[i].type = "ai" /\ startsWith(s.messages[i].content, prefix)}

\* C20: researchNotes is append-only: a researcher execution appends
\* exactly one note, its response, no other step changes the notes, and
\* their number is the number of researcher executions on the thread;
\* draft is the response of the most recent writer execution on the
\* thread, the empty default when the writer has not run, and only the
\* writer changes it.
C20_NotesAndDraft ==
  /\ [](Len(state.researchNotes) = Cardinality(messagesOf(state, "[Researcher] ")))
  /\ [][/\ (next = "researcher" =>
               /\ Len(state'.researchNotes) = Len(state.researchNotes) + 1
               /\ SubSeq(state'.researchNotes, 1, Len(state.researchNotes))
                     = state.researchNotes
               /\ "[Researcher] " \o state'.researchNotes[Len(state'.researchNotes)]
                     = lastContent(state'.messages))
        /\ (next # "researcher" => (state'.researchNotes = state.researchNotes))
        /\ (next # "writer" => (state'.draft = state.draft))]_vars
  /\ [](LET writes == messagesOf(state, "[Writer] ")
        IN IF writes = {} THEN state.draft = ""
           ELSE "[Writer] " \o state.draft =
                  state.messages[CHOOSE i \in writes : \A j \in writes : j <= i].content)

C20_Witness ==
  /\ state.researchNotes = <<"text", "more text", "text">>
  /\ state.draft = "improved draft"
  /\ Cardinality(messagesOf(state, "[Writer] ")) = 2
  /\ invocations = 2
  /\ next = END

\* a message a worker node returns
isWorkerMessage(m) ==
  /\ m.type = "ai"
  /\ startsWith(m.content, "[Researcher] ") \/ startsWith(m.content, "[Writer] ")

----------------------------------------------------------------------------
(* Claims about the RAG template *)

\* C5: in a run that starts with retryCount = 0 the rewrite node executes
\* at most 2 times and the retrieve node at most 3 times, whatever the
\* grader answers; once retryCount >= 2 the routing function returns
\* generate even when no document was graded relevant.
C5_RetryLimit ==
  /\ start.retryCount = 0 =>
       /\ executed["rewrite"] <= 2
       /\ executed["retrieve"] <= 3
  /\ state.retryCount >= 2 => routeAfterGrade(state) = "generate"
  /\ (next = "rewrite") => state.retryCount < 2

C5_Witness ==
  /\ start.retryCount = 0
  /\ executed["rewrite"] = 2
  /\ executed["retrieve"] = 3
  /\ executed["grade"] = 3
  /\ state.documents = <<>>
  /\ next = "generate"

\* C6: every run of the RAG graph terminates, each model and retrieval
\* call returning: it eventually reaches END, it has executed generate
\* exactly once when it does, and the nodes follow the order retrieve,
\* grade, then generate (and END) or rewrite followed by retrieve again.
C6_Terminates ==
  /\ [](next \in RAGNodes => <>(next = END))
  /\ [](next = END => executed["generate"] = 1)
  /\ [](next \in RAGNodes => executed["generate"] = 0)
  /\ [][/\ (next \in {START, END} => next' = "retrieve")
        /\ (next = "retrieve" => next' = "grade")
        /\ (next = "grade" => next' \in {"generate", "rewrite"})
        /\ (next = "rewrite" => next' = "retrieve")
        /\ (next = "generate" => next' = END)]_vars

C6_Witness ==
  /\ next = END
  /\ executed["generate"] = 1
  /\ executed["rewrite"] = 1
  /\ executed["retrieve"] = 2
  /\ executed["grade"] = 2

\* C7: routeAfterGrade returns generate exactly when state.documents is
\* non-empty or retryCount >= 2, and rewrite otherwise; so the generate
\* node is scheduled with an empty document list only when retryCount >= 2.
C7_RouteAfterGrade ==
  LET gen == Len(state.documents) > 0 \/ state.retryCount >= 2
  IN /\ gen => routeAfterGrade(state) = "generate"
     /\ ~gen => routeAfterGrade(state) = "rewrite"
     /\ next = "generate" => gen
     /\ next = "rewrite" => ~gen
     /\ (next = "generate" /\ Len(state.documents) = 0) => state.retryCount >= 2

C7_Witness ==
  /\ next = "generate"
  /\ Len(state.documents) = 0
  /\ state.retryCount = 2
  /\ invocations = 2

\* C19: retryCount equals the number of rewrite executions on the thread:
\* it is 0 before the first run, an invocation hands it on unchanged (so a
\* run starts with the count of the runs before it), it equals the count at
\* the start of the run plus the run's rewrite executions, every rewrite
\* execution adds exactly 1 and no step decreases it; hence it never
\* exceeds 2, rewrite is never scheduled at 2, and rewrite executes at most
\* 2 times over all invocations on the thread.
C19_RetryCountPerThread ==
  /\ [](state.retryCount = start.retryCount + executed["rewrite"])
  /\ [][(next \in {START, END}) =>
          /\ start'.retryCount = state.retryCount
          /\ state'.retryCount = state.retryCount]_vars
  /\ [][/\ state'.retryCount >= state.retryCount
        /\ (next = "rewrite" => state'.retryCount = state.retryCount + 1)
        /\ (next \in RAGNodes \ {"rewrite"} => (state'.retryCount = state.retryCount))]_vars
  /\ [](state.retryCount <= 2)
  /\ [](next = "rewrite" => state.retryCount < 2)
  /\ [](invocations = 0 => state.retryCount = 0)

C19_Witness ==
  /\ invocations = 2
  /\ start.retryCount = 1
  /\ executed["rewrite"] = 1
  /\ state.retryCount = 2
  /\ Len(state.documents) = 0
  /\ next = END

\* C23: on every invocation the query used for retrieval, grading and
\* generation is derived from that invocation's input, its query field or
\* else its last message (the two are the same text in every input here),
\* until a rewrite replaces it; a query an earlier invocation left in the
\* checkpointed state is never used in place of the new input.
C23_QueryFromInput ==
  (next \in {"grade", "generate", "rewrite", END} /\ invocations > 0
     /\ executed["rewrite"] = 0) =>
    state.query = lastContent(start.messages)

\* the positions of the returned documents the grader answered "yes" for,
\* in any letter case
gradedYes ==
  {i \in 1..Len(executed.returned) :
     includes(toLowerCase(executed.grades[i]), "yes")}

----------------------------------------------------------------------------
(* Claims about the basic ReAct template *)

lastIsToolRequest(s) ==
  /\ Len(s.messages) > 0
  /\ s.messages[Len(s.messages)].type = "ai"
  /\ Len(s.messages[Len(s.messages)].tool_calls) >= 1

\* C8: shouldContinue returns "tools" exactly when the last message of the
\* state is an AI message with at least one tool call, and END in every
\* other case, an empty message list and a last message that is not an AI
\* message included.
C8_ShouldContinue ==
  (DOMAIN state = {"messages"} /\ next # START) =>
    /\ lastIsToolRequest(state) => next = "tools"
    /\ ~lastIsToolRequest(state) => next = END

C8_Witness ==
  /\ DOMAIN state = {"messages"}
  /\ Len(state.messages) = 2
  /\ state.messages[1].type = "ai"
  /\ Len(state.messages[1].tool_calls) = 2
  /\ state.messages[2].type = "tool"
  /\ next = END

\* C9: the agent node is the first node of every run, the tools node is
\* scheduled only by an agent step whose response carries tool calls,
\* every tools step is followed by an agent step, and END is entered only
\* by an agent step whose response carries no tool calls.
C9_ReActOrder ==
  [][/\ (next \in {START, END} => next' = "agent")
     /\ (next' = "tools" => next = "agent" /\ lastIsToolRequest(state'))
     /\ (next = "tools" => next' = "agent")
     /\ (next' = END =>
           /\ next = "agent"
           /\ state'.messages = state.messages \o <<state'.messages[Len(state'.messages)]>>
           /\ state'.messages[Len(state'.messages)].type = "ai"
           /\ Len(state'.messages[Len(state'.messages)].tool_calls) = 0)]_vars

C9_Witness ==
  /\ next = END
  /\ executed["agent"] = 2
  /\ executed["tools"] = 1
  /\ Len(state.messages) = 5

\* C10: the ReAct loop repeats until done: an agent step whose response
\* carries no tool calls ends the run at that step, that step is possible
\* whenever the agent is scheduled (the loop has an exit), and, the model
\* eventually answering without tool calls, every run reaches END.
C10_LoopExits ==
  /\ [][(next = "agent" /\ ~lastIsToolRequest(state')) => next' = END]_vars
  /\ [](next = "agent" => ENABLED BasicAgentAnswers)
  /\ [](next \in BasicNodes => <>(next = END))

C10_Witness ==
  /\ next = END
  /\ executed["agent"] = 3
  /\ executed["tools"] = 2

\* the messages a step has appended to state.messages
appended == SubSeq(state'.messages, Len(state.messages) + 1, Len(state'.messages))

\* C11: callTools, the last message being an AI message with n tool calls,
\* returns exactly n tool messages in tool-call order, the i-th carrying the
\* i-th call's tool_call_id; a call naming a tool that is not registered is
\* answered by an "Unknown tool" message, a registered tool that throws by
\* an "Error" message, and the step completes (the agent runs next).
C11_CallTools ==
  [][next = "tools" =>
       LET calls == pendingCalls(state)
       IN /\ next' = "agent"
          /\ state'.messages = state.messages \o appended
          /\ Len(appended) = Len(calls)
          /\ \A i \in 1..Len(calls) :
                /\ appended[i].type = "tool"
                /\ appended[i].tool_call_id = calls[i].id
                /\ calls[i].name \notin toolsByName =>
                      startsWith(appended[i].content, "Unknown tool")
                /\ calls[i].name \in toolsByName =>
                      \/ appended[i].content = exampleTool(calls[i].args)
                      \/ startsWith(appended[i].content, "Error")]_vars

\* C24: callTools returns an empty messages update, which leaves the state
\* unchanged, whenever the message list is empty or the last message is not
\* an AI message, and also when the last AI message has no tool calls; with
\* tool calls the update is not empty.
C24_CallToolsEmpty ==
  next # "tools" =>
    /\ ~lastIsToolRequest(start) => (executed = [messages |-> <<>>] /\ state = start)
    /\ lastIsToolRequest(start) => (executed.messages # <<>> /\ state # start)

C24_Witness ==
  /\ next = "agent"
  /\ start.messages = <<AIMessageWithCalls("", <<ToolCall("1", "test", "x")>>),
                        ToolMessage("Results for: x", "1")>>
  /\ executed = [messages |-> <<>>]
  /\ state = start

\* C29: parallelToolNode returns its tool messages in the order of the
\* tool calls, in whatever order the tools complete, and when no tool
\* throws it returns the same messages as the sequential toolNode.
C29_ParallelToolNode ==
  next = "returned" =>
    LET calls == pendingCalls(start)
        returned == executed.parallel[1].messages
    IN /\ Len(returned) = Len(calls)
       /\ \A i \in 1..Len(calls) : returned[i].tool_call_id = calls[i].id
       /\ ((\A i \in 1..Len(calls) : executed.outcomes[i] = "returns")
             /\ executed.sequential # <<>>) =>
            executed.parallel = executed.sequential

\* C34: for the same model responses and tool results the Functional API
\* loop and the graph both stop at the first response without tool calls,
\* and the messages the entrypoint returns are the final messages of the
\* graph run, the final model response included.
C34_SameResult ==
  (next.functional = "returned" /\ next.graph = END) =>
    /\ invocations.functional = invocations.graph
    /\ state.functional = state.graph

----------------------------------------------------------------------------
(* Claims about interrupts *)

\* C25: with interruptAfter ["agent"] the first invocation stops right
\* after the agent node with a pending next step recorded for the thread,
\* and resuming with a null input continues from there, so that the
\* message list the resuming call returns is strictly longer than the one
\* returned at the interrupt.
C25_InterruptResume ==
  /\ (Len(invocations) = 1 /\ start = "idle") =>
        /\ executed = [agent |-> 1, tools |-> 0]
        /\ next \in BasicNodes
  /\ Len(invocations) >= 2 => Len(invocations[2]) > Len(invocations[1])

\* C26: in the approval gate the action is executed only after a resume
\* with a truthy value: nothing is executed while the run is paused at
\* interrupt(), a resume with a falsy value yields the cancellation message
\* and executes nothing, and an approval executes the action exactly once.
C26_ApprovalGate ==
  start.node = "approvalNode" =>
    /\ next = "approvalNode" => (executed.executeAction = 0 /\ state.result = "")
    /\ (next = END /\ executed.returned[1] \in Falsy) =>
          /\ executed.executeAction = 0
          /\ state.result = ""
          /\ state.messages[Len(state.messages)] = AIMessage("Cancelled.")
    /\ (next = END /\ executed.returned[1] \notin Falsy) =>
          /\ executed.executeAction = 1
          /\ state.result = executeAction(determineAction(state))
          /\ Len(state.messages) = 1

C26_Witness ==
  /\ start.node = "approvalNode"
  /\ next = END
  /\ executed.resumes = <<"true">>
  /\ executed.executeAction = 1

\* C27: on resume the interrupted node is executed again from its start:
\* the code before interrupt() has run once for the first entry and once
\* more for each resume, and the interrupt() calls of an execution return
\* the thread's resume values in the order of the calls.
C27_ReExecution ==
  invocations > 0 =>
    /\ executed.entries = 1 + Len(executed.resumes)
    /\ start.node = "approvalNode" => executed.determineAction = executed.entries
    /\ executed.returned = executed.resumes
    /\ start.node = "inputValidation" =>
         2 * executed.isValidEmail = Len(executed.resumes) * (Len(executed.resumes) + 1)

C27_Witness ==
  /\ start.node = "inputValidation"
  /\ next = END
  /\ executed.returned = <<"not an email", "user@example.com">>
  /\ executed.isValidEmail = 3

----------------------------------------------------------------------------
(* Claims about threads *)

RECURSIVE humanTexts(_, _)
\* the contents of the human messages of a message list from index i on
humanTexts(messages, i) ==
  IF i > Len(messages) THEN <<>>
  ELSE (IF messages[i].type = "human" THEN <<messages[i].content>> ELSE <<>>)
         \o humanTexts(messages, i + 1)

\* C12: invocations that share a thread_id continue one conversation: an
\* invocation starts from the state the thread's previous run left plus its
\* input, so the human messages of a thread's state are exactly the texts
\* sent on that thread, in order; threads are independent: a step changes
\* the state of one thread only and a thread's state never holds a message
\* sent on another thread.
C12_Threads ==
  /\ [](\A t \in Threads : humanTexts(state[t].messages, 1) = invocations[t])
  /\ [][\A t \in Threads :
          /\ state'[t] # state[t] =>
                /\ \A u \in Threads \ {t} : state'[u] = state[u]
                /\ Len(state'[t].messages) >= Len(state[t].messages)
                /\ SubSeq(state'[t].messages, 1, Len(state[t].messages)) = state[t].messages
          /\ invocations'[t] # invocations[t] =>
                /\ state'[t].messages =
                     state[t].messages \o <<HumanMessage(invocations'[t][Len(invocations'[t])])>>
                /\ start'[t] = state'[t]]_vars

C12_Witness ==
  \E a \in Threads : \E b \in Threads \ {a} :
    /\ invocations[a] = <<"My name is Alice", "What is my name?">>
    /\ invocations[b] = <<"What is my name?">>
    /\ next[a] = END /\ next[b] = END
    /\ Len(state[a].messages) = 4
    /\ state[a].messages[1] = HumanMessage("My name is Alice")
    /\ \A i \in 1..Len(state[b].messages) :
          state[b].messages[i] # HumanMessage("My name is Alice")

----------------------------------------------------------------------------
(* Claims about reducers *)

RECURSIVE flattened(_, _)
\* u1.searchResults ++ ... ++ un.searchResults over the updates from index i on
flattened(updates, i) ==
  IF i > Len(updates) THEN <<>>
  ELSE (IF Has(updates[i], "searchResults") THEN updates[i].searchResults ELSE <<>>)
         \o flattened(updates, i + 1)

RECURSIVE lengthSum(_, _)
lengthSum(updates, i) ==
  IF i > Len(updates) THEN 0
  ELSE (IF Has(updates[i], "searchResults") THEN Len(updates[i].searchResults) ELSE 0)
         + lengthSum(updates, i + 1)

\* the updates that write currentStep
stepWrites(updates) == {i \in 1..Len(updates) : Has(updates[i], "currentStep")}

\* C13: a field with the concatenating reducer accumulates: after the
\* updates u1..un applied in order to the default [] it holds
\* u1 ++ ... ++ un, its length the sum of the updates' lengths; a field
\* without a reducer holds the last value written, its default when
\* nothing was written.
C13_Reducers ==
  /\ state.searchResults = flattened(executed, 1)
  /\ Len(state.searchResults) = lengthSum(executed, 1)
  /\ stepWrites(executed) = {} => state.currentStep = "start"
  /\ stepWrites(executed) # {} =>
        state.currentStep =
          executed[CHOOSE i \in stepWrites(executed) :
                     \A j \in stepWrites(executed) : j <= i].currentStep

C13_Witness ==
  /\ Len(executed) = 3
  /\ state.searchResults = <<"r2", "r1", "r1">>
  /\ executed[1] = [searchResults |-> <<"r2", "r1">>, currentStep |-> "search"]
  /\ executed[2] = [currentStep |-> "done"]
  /\ executed[3] = [searchResults |-> <<"r1">>]
  /\ state.currentStep = "done"

----------------------------------------------------------------------------
(* Claims about the fan-out/fan-in graph *)

\* the results after the branches: the input, the update of start and the
\* updates of the two branches, one branch after the other
afterBranches ==
  {input.results \o executed.update["start"]
     \o executed.update[order[1]] \o executed.update[order[2]] :
       input \in FanInputs,
       order \in {<<"research", "analyze">>, <<"analyze", "research">>}}

\* C28: research and analyze both run after start; combine runs exactly
\* once, and only after both branches have completed; the merged state
\* holds the updates of both branches, none lost, in whatever order the
\* branches finish.
C28_FanOutFanIn ==
  /\ \A n \in {"research", "analyze"} :
       (executed.count[n] > 0 \/ (n \in next /\ start[n] # "waiting")) =>
          executed.count["start"] = 1
  /\ ("research" \in next \/ "analyze" \in next) =>
       /\ next = {"research", "analyze"}
       /\ \E input \in FanInputs :
            state.results = input.results \o executed.update["start"]
  /\ \A n \in FanNodes : executed.count[n] <= 1
  /\ "combine" \in next =>
       /\ next = {"combine"}
       /\ executed.count["research"] = 1 /\ executed.count["analyze"] = 1
       /\ state.results \in afterBranches
  /\ (next = {} /\ executed.count["start"] = 1) =>
       /\ executed.count = [n \in FanNodes |-> 1]
       /\ state.results \in {merged \o executed.update["combine"] :
                                merged \in afterBranches}

C28_Witness ==
  /\ next = {}
  /\ executed.count["combine"] = 1
  /\ state.results =
       <<"seed", "started", "analysis", "finding 1", "finding 2", "combined">>

----------------------------------------------------------------------------
(* Claims about cachedTool *)

\* C30: cachedTool returns the stored result without calling actualSearch
\* whenever the query has an entry younger than CACHE_TTL; with no entry,
\* or one at least CACHE_TTL old, it calls actualSearch exactly once and
\* stores the result with the time it is then.  The entries of other
\* queries are never touched.
C30_CachedTool ==
  /\ executed.last # <<>> =>
       LET call == executed.last[1]
           young == /\ call.cached # <<>>
                    /\ call.checkedAt - call.cached[1].timestamp < CACHE_TTL
       IN /\ young <=> call.searched = 0
          /\ young => (call.returned = call.cached[1].result
                         /\ call.returnedAt = call.checkedAt)
          /\ ~young =>
                /\ state[cacheKey(call.query)] =
                     [result |-> call.returned, timestamp |-> call.returnedAt]
                /\ call.returnedAt <= next
  /\ executed.searches <= executed.calls
  /\ \A k \in DOMAIN start :
       (executed.last = <<>> \/ k # cacheKey(executed.last[1].query)) =>
          (k \in DOMAIN state /\ state[k] = start[k])
  /\ DOMAIN state \subseteq {cacheKey(q) : q \in Queries}

C30_Witness ==
  /\ executed.last # <<>>
  /\ executed.last[1].searched = 0
  /\ executed.last[1].checkedAt = TickMs
  /\ executed.searches = 2
  /\ DOMAIN state = {cacheKey(q) : q \in Queries}

\* C31: when two calls of cachedTool with the same uncached query overlap
\* (the second starts before the first's actualSearch has returned),
\* actualSearch is invoked only once for that query: no two calls waiting
\* for actualSearch have the same query.
C31_OneSearchPerQuery ==
  \A i \in 1..Len(invocations) : \A j \in 1..Len(invocations) :
     i # j => invocations[i].query # invocations[j].query

----------------------------------------------------------------------------
(* Claims about summarizeIfNeeded *)

\* C32: given fewer than 20 messages summarizeIfNeeded returns an empty
\* update and the state is unchanged; given 20 or more, after the update
\* has gone through the messages reducer the stored history consists of
\* the summary message and the last 10 messages only.
C32_HistoryBounded ==
  executed # <<>> =>
    LET given == executed[1].given
        update == executed[1].update
    IN /\ Len(given.messages) < SummarizeThreshold =>
            (~Has(update, "messages") /\ state = given)
       /\ Len(given.messages) >= SummarizeThreshold =>
            /\ Len(state.messages) = KeepLast + 1
            /\ state.messages[1].message.type = "system"
            /\ SubSeq(state.messages, 2, KeepLast + 1) = sliceLast(given.messages, KeepLast)

----------------------------------------------------------------------------
(* Claims about processNode *)

RECURSIVE flattenBatches(_)
flattenBatches(batches) ==
  IF batches = <<>> THEN <<>> ELSE Head(batches) \o flattenBatches(Tail(batches))

\* C33: processNode processes only new messages: the messages passed to
\* processMessages so far are the messages up to lastProcessedIndex, each
\* once and in order; lastProcessedIndex never exceeds the number of
\* messages and never decreases; an execution that finds no new message
\* returns an empty update.
C33_ProcessOnce ==
  /\ flattenBatches(executed.passed) = SubSeq(state.messages, 1, state.lastProcessedIndex)
  /\ state.lastProcessedIndex <= Len(state.messages)
  /\ executed.found <= state.lastProcessedIndex
  /\ \A k \in 1..Len(executed.passed) : executed.passed[k] # <<>>
  /\ (executed.given # <<>>
        /\ executed.given[1].lastProcessedIndex = Len(executed.given[1].messages)) =>
       ~Has(executed.update[1], "lastProcessedIndex") /\ ~Has(executed.update[1], "result")

C33_Witness ==
  /\ Len(executed.passed) = 2
  /\ executed.executions = 3
  /\ state.lastProcessedIndex = 3
  /\ Len(state.messages) = 4
  /\ ~Has(executed.update[1], "result")

----------------------------------------------------------------------------
(* Claims about the reference supervisor *)

----------------------------------------------------------------------------
(* Claims about two runs of a template graph *)

----------------------------------------------------------------------------
(* Claims about batchedToolNode *)

\* C37: when no tool throws, batchedToolNode returns exactly one tool
\* message per tool call of the last message, each with the tool_call_id
\* of the call it answers; in a batched search group the i-th result goes
\* to the i-th call of the group, and every other call is invoked on its
\* own.
C37_OneMessagePerCall ==
  (next # "tools" /\ \A i \in DOMAIN executed.outcomes : executed.outcomes[i] = "returns") =>
    LET calls == batchToolCalls(start)
        returned == executed.returned[1]
    IN /\ next = "returned"
       /\ Len(returned) = Len(calls)
       /\ \A i \in 1..Len(calls) :
            \E k \in 1..Len(returned) :
               /\ returned[k].tool_call_id = calls[i].id
               /\ returned[k].content = "Results for: " \o calls[i].args.query
               /\ \A j \in 1..Len(returned) :
                    returned[j].tool_call_id = calls[i].id => j = k

----------------------------------------------------------------------------
(* Claims about the intake routing *)

\* C14: the routing table is a function: no number 1-6 and no keyword is
\* listed in two rows, so a response that is one listed number or keyword
\* is routed to the workflow file of the one row that lists it, and a
\* response that matches no row is routed to the "clarify intent" row and
\* to no workflow.
C14_RoutingFunction ==
  /\ \A i, j \in 1..Len(RoutingTable) :
        i # j => RoutingTable[i].responses \cap RoutingTable[j].responses = {}
  /\ \A c \in {"1", "2", "3", "4", "5", "6"} :
        Cardinality({i \in 1..Len(RoutingTable) : c \in RoutingTable[i].responses}) = 1
  /\ next # START =>
        /\ (Len(state) = 1 /\ state[1] \in ListedResponses) =>
              /\ Cardinality(route(state)) = 1
              /\ \A i \in 1..Len(RoutingTable) :
                    state[1] \in RoutingTable[i].responses => next = RoutingTable[i].workflow
        /\ (\A k \in 1..Len(state) : state[k] \notin ListedResponses) => next = ClarifyIntent
        /\ next = ClarifyIntent => \A k \in 1..Len(state) : state[k] \notin ListedResponses

C14_Witness ==
  /\ state = <<"deploy", "other">>
  /\ next = ClarifyIntent

\* C15: every workflow file the routing table refers to exists: each routed
\* file is one of the six files of the workflows index, and each indexed
\* workflow is the target of exactly one routing row.
C15_WorkflowsExist ==
  /\ Cardinality(WorkflowsIndex) = 6
  /\ \A i \in 1..Len(RoutingTable) :
        \E f \in WorkflowsIndex : RoutingTable[i].workflow = WorkflowsDir \o f
  /\ \A f \in WorkflowsIndex :
        Cardinality({i \in 1..Len(RoutingTable) :
                       RoutingTable[i].workflow = WorkflowsDir \o f}) = 1
  /\ next \notin {START, ClarifyIntent} =>
        \E f \in WorkflowsIndex : next = WorkflowsDir \o f

C15_Witness ==
  /\ state = <<"coverage">>
  /\ next = "workflows/write-tests.md"

----------------------------------------------------------------------------
(* Claims about the template graphs *)

RECURSIVE reachFrom(_, _, _)
\* what k or fewer edges of the template's graph lead to from the nodes of S
reachFrom(template, S, k) ==
  IF k = 0 THEN S
  ELSE reachFrom(template,
                 S \cup UNION {Targets(template, n) : n \in S \ {END}}, k - 1)

\* what the template's graph leads to from a node, by one edge or more
reachable(template, node) ==
  reachFrom(template, Targets(template, node), Cardinality(TemplateNodes(template)))

\* C16: in each of the three template graphs every node is reachable from
\* START and END is reachable from every node; the routing function of a
\* conditional edge returns, in every state a run reaches, a target declared
\* for that edge, and every step of a run follows an edge of the graph.
C16_GraphsSound ==
  /\ [](\A template \in Templates :
          \A n \in TemplateNodes(template) :
            /\ n \in reachable(template, START)
            /\ END \in reachable(template, n))
  /\ [](/\ templateOf(state) = "multi" =>
             routeFromSupervisor(state) \in MultiTargets("supervisor")
        /\ templateOf(state) = "rag" =>
             routeAfterGrade(state) \in RAGTargets("grade")
        /\ templateOf(state) = "basic" =>
             shouldContinue(state) \in BasicTargets("agent"))
  /\ [][next' \in Targets(templateOf(state), IF next = END THEN START ELSE next)]_vars

C16_Witness ==
  /\ templateOf(state) = "rag"
  /\ next = "rewrite"
  /\ executed["rewrite"] = 1
  /\ routeAfterGrade(state) = "rewrite"

====
